---- MODULE Spec2Model ----
(***************************************************************************)
(* A model of snail-core: the collection orchestrator (core.py), the       *)
(* upload pipeline with its retry engine (uploader.py), the host identity  *)
(* store (host_id.py) and the API key bootstrap (auth.py).                 *)
(*                                                                         *)
(* The specifications that share the module:                               *)
(*   SpecUpload  - one Uploader.upload call, attempt by attempt            *)
(*   SpecHostId  - get_host_id / reset_host_id on a file system with       *)
(*                 fixed fault conditions                                  *)
(*   SpecReset   - the same calls when only the delete can fail            *)
(*   SpecCollect - SnailCore.collect runs, collector by collector          *)
(*   SpecPayload - uploads of Reports holding values of every kind,        *)
(*                 answered with bodies of every JSON type                 *)
(*   SpecAuth    - ensure_api_key (auth.py), on its own and inside the     *)
(*                 SnailCore constructor                                   *)
(*   SpecCore    - a SnailCore from construction on: upload and            *)
(*                 collect_and_upload                                      *)
(*   SpecConfig  - Config.save and Config.from_file                        *)
(*   SpecIssue   - get_api_key_from_server for upload URLs of every shape  *)
(*   SpecHostSteps - get_host_id statement by statement, called by two     *)
(*                 processes on the same location                          *)
(***************************************************************************)
EXTENDS Integers, Sequences, FiniteSets, TLC

VARIABLES
    \* ---- upload pipeline (uploader.py) ----
    config,       \* the Config: the fields the core reads, or all of them
    upc,          \* position of the upload call: idle / attempt / backoff / done
    callEndpoint, \* the endpoint argument of the upload call
    request,      \* the HTTP request prepared: its url, headers and body
    attempt,      \* loop variable of _upload_with_retry
    last_error,   \* local last_error of _upload_with_retry
    upResult,     \* the UploadResult returned by _upload_with_retry, or None
    upOutcome,    \* what upload() delivered to its caller, or None
    sent,         \* number of session.post calls made
    sleeps,       \* the time.sleep durations, in call order
    seenStatus,   \* response statuses met so far in this call
    seenExc,      \* exception classes met so far in this call
    lastOutcome,  \* outcome of the most recent session.post
    \* ---- host identity store (host_id.py) ----
    output_dir,   \* Config.output_dir, the argument of every host-id call
    dirKind,      \* what output_dir names on disk: dir / missing / file
    mkdirOk,      \* whether mkdir of each default location's parent succeeds
    storeFault,   \* first step of the store block that fails: none/mkdir/write/chmod
    readOk,       \* whether read_text of an existing host-id file succeeds
    unlinkOk,     \* whether unlink of an existing host-id file succeeds
    files,        \* content of each host-id file, or NoFile
    nextUuid,     \* number of uuid4() values drawn so far
    lastOp,       \* the most recent host-id call: none / get / reset
    lastRet,      \* the value it returned
    lastGenerated,\* whether it generated a new identity
    lastStored,   \* what it found at the resolved location, or NoFile
    prevOp,       \* the host-id call before it
    prevRet,      \* the value that one returned
    preResetGet,  \* value of the last get_host_id before the latest reset
    resetRet,     \* value returned by the latest reset_host_id
    fileMode,     \* permission bits of each host-id file, or NoMode
    procs,        \* each process's get_host_id call, statement by statement
    \* ---- collection orchestrator (core.py) ----
    cpc,          \* position of collect(): idle / running / returned / raised
    names,        \* the collector_names argument of the current call
    toRun,        \* collectors_to_run, in iteration order
    idx,          \* position of the for loop in toRun
    report,       \* the CollectionReport being built or returned
    invoked,      \* collectors whose class was called in this run, in order
    failed,       \* collectors that raised in this run
    runs,         \* number of collect() calls started
    prevHostId,   \* host_id of the Report the previous collect() returned
    resetBetween, \* reset_host_id was called since that Report was built
    \* ---- the core and the authentication bootstrap (core.py, auth.py) ----
    env,          \* SNAIL_UPLOAD_URL, SNAIL_USERNAME, SNAIL_PASSWORD
    cfgFiles,     \* content of each default configuration file, or NoFile
    corePc,       \* the SnailCore object: unbuilt / ready / failed
    uploader,     \* the Uploader in use (its session headers), or Nil
    coreOp,       \* the call in progress: none / upload / direct / cau_...
    coreOutcome,  \* what the last finished call delivered, or Nil
    lastAuth      \* the most recent ensure_api_key call, or NoAuth

uploadVars == <<config, upc, callEndpoint, request, attempt, last_error,
                upResult, upOutcome, sent, sleeps, seenStatus, seenExc,
                lastOutcome>>

\* Python's None, where a string is expected / where a record is expected /
\* where a status code is expected
None == "None"
Nil == [none |-> TRUE]
NoStatus == -1

Min(a, b) == IF a < b THEN a ELSE b

RECURSIVE Pow2(_)
Pow2(n) == IF n <= 0 THEN 1 ELSE 2 * Pow2(n - 1)

----------------------------------------------------------------------------
(* Bounds *)

MaxRetries == 6      \* largest configured upload_retries explored
NegRetries == 1      \* how far below zero upload_retries is explored
PayloadRetries == 2  \* largest upload_retries of the payload runs
CoreRetries == 2     \* upload_retries of the uploads made through the core
NumCollectors == 3   \* registered collectors in the explored registry
MaxNames == 2        \* longest collector_names list explored
MaxRuns == 2         \* collect() calls in one behaviour

\* the registry of collectors/__init__.py, in insertion order
COLLECTORS == <<"system", "hardware", "network", "packages", "services",
                "filesystem", "security", "logs">>

\* self.collectors = get_all_collectors()
Registry == SubSeq(COLLECTORS, 1, Min(NumCollectors, Len(COLLECTORS)))

Range(seq) == {seq[i] : i \in 1..Len(seq)}

----------------------------------------------------------------------------
(* Python values and JSON documents *)

PyNone == [t |-> "NoneType"]
PyBool(b) == [t |-> "bool", b |-> b]
PyInt(n) == [t |-> "int", n |-> n]
PyStr(s) == [t |-> "str", s |-> s]
\* a str whose text the model keeps as a record (an identity, a message)
PyRef(r) == [t |-> "str", ref |-> r]
PyList(items) == [t |-> "list", items |-> items]
PyTuple(items) == [t |-> "tuple", items |-> items]
\* a dict, as its key/value pairs in insertion order
PyDict(pairs) == [t |-> "dict", pairs |-> pairs]
\* any other object (a datetime, a Path), with the text str() gives for it
PyObject(cls, text) == [t |-> "object", cls |-> cls, text |-> text]

\* key in d, d[key] and d[key] = value for a dict d
HasKey(d, key) == \E i \in 1..Len(d.pairs) : d.pairs[i].k = PyStr(key)

Get(d, key) ==
    LET i == CHOOSE i \in 1..Len(d.pairs) : d.pairs[i].k = PyStr(key)
    IN d.pairs[i].v

DictSet(d, key, value) ==
    IF HasKey(d, key)
    THEN PyDict([i \in 1..Len(d.pairs) |->
                   IF d.pairs[i].k = PyStr(key)
                   THEN [k |-> PyStr(key), v |-> value]
                   ELSE d.pairs[i]])
    ELSE PyDict(d.pairs \o <<[k |-> PyStr(key), v |-> value]>>)

\* bool(v)
PyTruthy(v) ==
    CASE v.t = "NoneType" -> FALSE
      [] v.t = "bool"     -> v.b
      [] v.t = "int"      -> v.n # 0
      [] v.t = "str"      -> IF "s" \in DOMAIN v THEN v.s # "" ELSE TRUE
      [] v.t \in {"list", "tuple"} -> v.items # <<>>
      [] v.t = "dict"     -> v.pairs # <<>>
      [] OTHER            -> TRUE

JNull == [j |-> "null"]
JBool(b) == [j |-> "boolean", b |-> b]
JNum(n) == [j |-> "number", n |-> n]
JStr(s) == [j |-> "string", s |-> s]
JRef(r) == [j |-> "string", ref |-> r]
JArr(items) == [j |-> "array", items |-> items]
\* an object, as its members [name, value] in document order
JObj(members) == [j |-> "object", members |-> members]

\* the member name json.dumps writes for a dict key
KeyName(k) ==
    CASE k.t = "str"      -> IF "s" \in DOMAIN k THEN JStr(k.s) ELSE JRef(k.ref)
      [] k.t = "int"      -> JStr(ToString(k.n))
      [] k.t = "bool"     -> JStr(IF k.b THEN "true" ELSE "false")
      [] k.t = "NoneType" -> JStr("null")

\* json.dumps raises TypeError for a dict key of any other type
RECURSIVE Serializable(_)
Serializable(v) ==
    CASE v.t \in {"list", "tuple"} ->
            \A i \in 1..Len(v.items) : Serializable(v.items[i])
      [] v.t = "dict" ->
            \A i \in 1..Len(v.pairs) :
                /\ v.pairs[i].k.t \in {"str", "int", "bool", "NoneType"}
                /\ Serializable(v.pairs[i].v)
      [] OTHER -> TRUE

\* json.dumps(v, default=str): the document written for v
RECURSIVE JsonDumps(_)
JsonDumps(v) ==
    CASE v.t = "NoneType" -> JNull
      [] v.t = "bool"     -> JBool(v.b)
      [] v.t = "int"      -> JNum(v.n)
      [] v.t = "str"      -> IF "s" \in DOMAIN v THEN JStr(v.s) ELSE JRef(v.ref)
      [] v.t \in {"list", "tuple"} ->
            JArr([i \in 1..Len(v.items) |-> JsonDumps(v.items[i])])
      [] v.t = "dict" ->
            JObj([i \in 1..Len(v.pairs) |->
                    [name |-> KeyName(v.pairs[i].k),
                     value |-> JsonDumps(v.pairs[i].v)]])
      [] OTHER -> JStr(v.text)

\* json.loads / response.json(): the value read from a document (no sample
\* document repeats a member name)
RECURSIVE JsonLoads(_)
JsonLoads(d) ==
    CASE d.j = "null"    -> PyNone
      [] d.j = "boolean" -> PyBool(d.b)
      [] d.j = "number"  -> PyInt(d.n)
      [] d.j = "string"  -> IF "s" \in DOMAIN d THEN PyStr(d.s) ELSE PyRef(d.ref)
      [] d.j = "array"   ->
            PyList([i \in 1..Len(d.items) |-> JsonLoads(d.items[i])])
      [] d.j = "object"  ->
            PyDict([i \in 1..Len(d.members) |->
                      [k |-> JsonLoads(d.members[i].name),
                       v |-> JsonLoads(d.members[i].value)]])

\* str.encode("utf-8") and gzip.compress
Utf8(doc) == [bytes |-> "utf-8", text |-> doc]
GzipCompress(b) == [bytes |-> "gzip", member |-> b]

----------------------------------------------------------------------------
(* The transport: what session.post can produce *)

Statuses == {100, 200, 204, 304, 400, 401, 403, 404, 429, 500}

\* A response body: whether response.json() can decode it, its length and,
\* when it can be decoded, the JSON document it holds
Body(doc, len) == [json |-> TRUE, len |-> len, doc |-> doc]
NotJson(len) == [json |-> FALSE, len |-> len, doc |-> Nil]

Bodies == {Body(JObj(<<>>), 2), NotJson(600)}

\* decodable bodies of every JSON type, empty and not
JsonDocs ==
    {JObj(<<>>),
     JObj(<<[name |-> JStr("status"), value |-> JStr("accepted")]>>),
     JArr(<<>>), JArr(<<JNum(1), JNull>>),
     JNull, JBool(FALSE), JBool(TRUE), JNum(0), JNum(7),
     JStr(""), JStr("ok")}

PayloadBodies == {Body(d, 20) : d \in JsonDocs}
                 \cup {NotJson(0), NotJson(600)}

\* requests exception classes and their bases
ExcBases == [ReadTimeout      |-> {"Timeout", "RequestException"},
             ConnectTimeout   |-> {"ConnectionError", "Timeout", "RequestException"},
             ConnectionError  |-> {"ConnectionError", "RequestException"},
             TooManyRedirects |-> {"RequestException"}]

Exceptions == DOMAIN ExcBases

Outcomes == [type : {"response"}, status : Statuses, body : Bodies]
            \cup [type : {"exception"}, exc : Exceptions]

\* response.ok of requests: False exactly for 400 <= status < 600
ResponseOkMut(status) == status = 200
ResponseOk(status) == ~(400 <= status /\ status < 600)

\* text[:n]
Prefix(body, n) == [body EXCEPT !.len = Min(body.len, n)]

NonRetryableStatusesMut == {400, 401, 403}
NonRetryableStatuses == {400, 401, 403, 404}

\* response.json(), with the fallback of lines 137-138
ResponseData(body) ==
    IF body.json THEN JsonLoads(body.doc)
    ELSE PyDict(<<[k |-> PyStr("status"), v |-> PyStr("ok")],
                  [k |-> PyStr("raw"), v |-> PyRef(Prefix(body, 500))]>>)

HttpError(o) == [msg |-> "HTTP", status |-> o.status, text |-> Prefix(o.body, 200)]

\* the except clauses of lines 167-177, in order
ExceptionError(exc) ==
    IF "Timeout" \in ExcBases[exc] THEN [msg |-> "Request timed out"]
    ELSE IF "ConnectionError" \in ExcBases[exc]
         THEN [msg |-> "Connection error", exc |-> exc]
         ELSE [msg |-> "Request error", exc |-> exc]

BackoffMut(k) == Pow2(k)
Backoff(k) == Min(Pow2(k), 30)

UploadResult(success, status_code, response_data, error, attempts) ==
    [success |-> success, status_code |-> status_code,
     response_data |-> response_data, error |-> error, attempts |-> attempts]

\* Uploader.upload, lines 105-110: what the caller gets for a result
Deliver(result) ==
    IF ~result.success
    THEN [kind |-> "raise", type |-> "UploadError",
          attempts |-> result.attempts, cause |-> result.error]
    ELSE [kind |-> "return",
          data |-> IF PyTruthy(result.response_data)
                   THEN result.response_data
                   ELSE PyDict(<<>>)]

----------------------------------------------------------------------------
(* Uploader.upload *)

Urls == {None, "", "https://server/api/v1/ingest"}
Endpoints == {None, "https://other/ingest"}

Truthy(s) == s # None /\ s # ""

InitUploadVars ==
    /\ config \in [upload_url : Urls,
                   upload_retries : (0 - NegRetries)..MaxRetries,
                   compress_output : BOOLEAN,
                   api_key : {None},
                   upload_enabled : {TRUE}]
    /\ upc = "idle"
    /\ callEndpoint = None
    /\ request = Nil
    /\ attempt = 0
    /\ last_error = Nil
    /\ upResult = Nil
    /\ upOutcome = Nil
    /\ sent = 0
    /\ sleeps = <<>>
    /\ seenStatus = {}
    /\ seenExc = {}
    /\ lastOutcome = Nil

\* the UploadResult built after the loop, lines 185-189
ExhaustedMut ==
    UploadResult(FALSE, NoStatus, Nil, last_error, attempt - 1)
Exhausted ==
    UploadResult(FALSE, NoStatus, Nil, last_error, config.upload_retries)

\* _upload_with_retry returned `result`: upload() raises or returns
Finish(result) ==
    /\ upResult' = result
    /\ upOutcome' = Deliver(result)
    /\ upc' = "done"

\* report.results as a dict, in the order the collectors ran
ResultsDict(res) ==
    LET ks == SelectSeq(Registry, LAMBDA n : n \in DOMAIN res)
    IN PyDict([i \in 1..Len(ks) |-> [k |-> PyStr(ks[i]), v |-> res[ks[i]]]])

\* CollectionReport.to_dict, core.py lines 48-60
ToDictMut(r) ==
    PyDict(<<[k |-> PyStr("meta"),
              v |-> PyDict(<<[k |-> PyStr("hostname"),
                              v |-> PyStr(r.hostname)],
                             [k |-> PyStr("host_id"),
                              v |-> PyRef(r.collection_id)],
                             [k |-> PyStr("collection_id"),
                              v |-> PyRef(r.host_id)],
                             [k |-> PyStr("timestamp"),
                              v |-> PyRef([timestamp_of |-> r.collection_id])],
                             [k |-> PyStr("snail_version"),
                              v |-> PyStr("version")]>>)],
             [k |-> PyStr("data"), v |-> ResultsDict(r.results)],
             [k |-> PyStr("errors"),
              v |-> PyList([i \in 1..Len(r.errors) |-> PyRef(r.errors[i])])]>>)
ToDict(r) ==
    PyDict(<<[k |-> PyStr("meta"),
              v |-> PyDict(<<[k |-> PyStr("hostname"),
                              v |-> PyStr(r.hostname)],
                             [k |-> PyStr("host_id"),
                              v |-> PyRef(r.host_id)],
                             [k |-> PyStr("collection_id"),
                              v |-> PyRef(r.collection_id)],
                             [k |-> PyStr("timestamp"),
                              v |-> PyRef([timestamp_of |-> r.collection_id])],
                             [k |-> PyStr("snail_version"),
                              v |-> PyStr("version")]>>)],
             [k |-> PyStr("data"), v |-> ResultsDict(r.results)],
             [k |-> PyStr("errors"),
              v |-> PyList([i \in 1..Len(r.errors) |-> PyRef(r.errors[i])])]>>)

\* lines 92-102: the bytes posted and the headers passed with them
RequestDataMut(r, compress) ==
    IF compress
    THEN GzipCompress(Utf8(JsonDumps(ResultsDict(r.results))))
    ELSE Utf8(JsonDumps(ToDict(r)))
RequestData(r, compress) ==
    IF compress
    THEN GzipCompress(Utf8(JsonDumps(ToDict(r))))
    ELSE Utf8(JsonDumps(ToDict(r)))

ExtraHeaders(compress) ==
    [Content_Encoding |-> IF compress THEN "gzip" ELSE None]

\* Uploader(config), lines 49-68: the session headers that depend on config
Uploader(cfg) ==
    [X_API_Key |-> IF Truthy(cfg.api_key) THEN cfg.api_key ELSE None]

\* raise ValueError("No upload URL configured"), uploader.py line 90 and
\* core.py line 160
NoUrlErrorMut == [kind |-> "raise", type |-> "UploadError"]
NoUrlError == [kind |-> "raise", type |-> "ValueError"]

\* u.upload(report, endpoint) up to the first loop iteration, lines 88-121
UploadWith(u, endpoint) ==
    /\ upc = "idle"
    /\ callEndpoint' = endpoint
    /\ LET url == IF Truthy(endpoint) THEN endpoint ELSE config.upload_url
       IN IF ~Truthy(url)
          THEN /\ upOutcome' = NoUrlError
               /\ upc' = "done"
               /\ UNCHANGED <<request, attempt, upResult>>
          ELSE IF ~Serializable(ToDict(report))
          THEN /\ upOutcome' = [kind |-> "raise", type |-> "TypeError"]
               /\ upc' = "done"
               /\ UNCHANGED <<request, attempt, upResult>>
          ELSE /\ request' = [url |-> url,
                              headers |-> u @@
                                  ExtraHeaders(config.compress_output),
                              data |-> RequestData(report,
                                                   config.compress_output)]
               /\ IF config.upload_retries >= 1
                  THEN /\ attempt' = 1
                       /\ upc' = "attempt"
                       /\ UNCHANGED <<upResult, upOutcome>>
                  ELSE /\ Finish(Exhausted)
                       /\ UNCHANGED attempt
    /\ UNCHANGED <<config, last_error, sent, sleeps, seenStatus, seenExc,
                   lastOutcome>>

\* self.upload(report, endpoint) on the Uploader in use
UploadCall(endpoint) == UploadWith(uploader, endpoint)

\* one session.post and the handling of its outcome, lines 122-177
SendRequest(o) ==
    /\ upc = "attempt"
    /\ sent' = sent + 1
    /\ seenStatus' = IF o.type = "response" THEN seenStatus \cup {o.status}
                     ELSE seenStatus
    /\ seenExc' = IF o.type = "exception" THEN seenExc \cup {o.exc}
                  ELSE seenExc
    /\ lastOutcome' = o
    /\ IF o.type = "response"
       THEN IF ResponseOk(o.status)
            THEN /\ Finish(UploadResult(TRUE, o.status, ResponseData(o.body),
                                        Nil, attempt))
                 /\ UNCHANGED last_error
            ELSE IF o.status \in NonRetryableStatuses
            THEN /\ Finish(UploadResult(FALSE, o.status, Nil, HttpError(o),
                                        attempt))
                 /\ UNCHANGED last_error
            ELSE /\ last_error' = HttpError(o)
                 /\ upc' = "backoff"
                 /\ UNCHANGED <<upResult, upOutcome>>
       ELSE /\ last_error' = ExceptionError(o.exc)
            /\ upc' = "backoff"
            /\ UNCHANGED <<upResult, upOutcome>>
    /\ UNCHANGED <<config, callEndpoint, request, attempt, sleeps>>

\* the end of a failed iteration, lines 179-189
BackoffOrStop ==
    /\ upc = "backoff"
    /\ IF attempt < config.upload_retries
       THEN /\ sleeps' = Append(sleeps, Backoff(attempt))
            /\ attempt' = attempt + 1
            /\ upc' = "attempt"
            /\ UNCHANGED <<upResult, upOutcome>>
       ELSE /\ Finish(Exhausted)
            /\ UNCHANGED <<sleeps, attempt>>
    /\ UNCHANGED <<config, callEndpoint, request, last_error, sent,
                   seenStatus, seenExc, lastOutcome>>

----------------------------------------------------------------------------
(* Host identity store *)

hostVars == <<output_dir, dirKind, mkdirOk, storeFault, readOk, unlinkOk,
              files, nextUuid, lastOp, lastRet, lastGenerated, lastStored,
              prevOp, prevRet, preResetGet, resetRet, fileMode, procs>>

MaxUuid == 4         \* uuid4() values drawn in one behaviour

\* Config.output_dir values: unset, the default, a directory, a file's path
OutputDirs == {None, "/var/lib/snail-core", "/srv/out", "/srv/out/report"}

Parent == [p \in OutputDirs \ {None} |->
            CASE p = "/var/lib/snail-core" -> "/var/lib"
              [] p = "/srv/out"            -> "/srv"
              [] p = "/srv/out/report"     -> "/srv/out"]

\* directory / "host-id"
HostIdIn == [d \in {"/var/lib/snail-core", "/var/lib", "/srv/out", "/srv",
                    "/srv/out/report"} |->
              CASE d = "/var/lib/snail-core" -> "/var/lib/snail-core/host-id"
                [] d = "/var/lib"            -> "/var/lib/host-id"
                [] d = "/srv/out"            -> "/srv/out/host-id"
                [] d = "/srv"                -> "/srv/host-id"
                [] d = "/srv/out/report"     -> "/srv/out/report/host-id"]

DEFAULT_HOST_ID_PATHS ==
    <<"/var/lib/snail-core/host-id", "~/.config/snail-core/host-id",
      "snail-host-id">>

HostIdFiles == {HostIdIn[d] : d \in DOMAIN HostIdIn}
               \cup {DEFAULT_HOST_ID_PATHS[i] : i \in 1..3}

\* the text of a host-id file, or a returned identity: a UUID (numbered) or
\* something uuid.UUID rejects, possibly surrounded by whitespace
Texts == [kind : {"uuid", "garbage"}, id : 0..MaxUuid, pad : BOOLEAN]
NoFile == [kind |-> "absent"]

Strip(t) == [t EXCEPT !.pad = FALSE]

\* uuid.UUID(host_id) does not raise ValueError
IsValidUuid(t) == t.kind = "uuid" /\ ~t.pad

\* str(uuid.uuid4()): a value not drawn before
Uuid4 == [kind |-> "uuid", id |-> nextUuid, pad |-> FALSE]

RECURSIVE FirstCreatable(_)
FirstCreatable(i) ==
    IF i > Len(DEFAULT_HOST_ID_PATHS) THEN "snail-host-id"
    ELSE IF mkdirOk[i] THEN DEFAULT_HOST_ID_PATHS[i]
    ELSE FirstCreatable(i + 1)

\* _get_host_id_path(config_output_dir)
HostIdPath(d) ==
    IF Truthy(d)
    THEN IF dirKind \in {"dir", "missing"} THEN HostIdIn[d]
         ELSE HostIdIn[Parent[d]]
    ELSE FirstCreatable(1)

\* get_host_id, lines 42-50: the stored identity is used
ReusesExistingMut(f, d) ==
    /\ f[HostIdPath(d)] # NoFile
    /\ readOk
ReusesExisting(f, d) ==
    /\ f[HostIdPath(d)] # NoFile
    /\ readOk
    /\ IsValidUuid(Strip(f[HostIdPath(d)]))

\* what the failing steps of get_host_id raise: read_text an OSError
\* (IOError is its alias), uuid.UUID a ValueError, mkdir, write_text and
\* chmod an OSError
RaisedBy == [read |-> "OSError", parse |-> "ValueError", mkdir |-> "OSError",
             write |-> "OSError", chmod |-> "OSError", none |-> "nothing"]

\* except (ValueError, IOError), line 48
ReadHandler == {"ValueError", "OSError"}

\* except (IOError, OSError), line 63
StoreHandler == {"OSError"}

\* an exception of get_host_id(d) that no handler catches
Escapes(f, d) ==
    \/ /\ f[HostIdPath(d)] # NoFile
       /\ \/ ~readOk /\ RaisedBy.read \notin ReadHandler
          \/ readOk /\ ~IsValidUuid(Strip(f[HostIdPath(d)]))
               /\ RaisedBy.parse \notin ReadHandler
    \/ /\ ~ReusesExisting(f, d)
       /\ storeFault # "none"
       /\ RaisedBy[storeFault] \notin StoreHandler

Raised == [kind |-> "raise"]

\* the value get_host_id(d) returns on file system f
GetHostIdRet(f, d) ==
    IF ReusesExisting(f, d) THEN Strip(f[HostIdPath(d)])
    ELSE IF Escapes(f, d) THEN Raised
    ELSE Uuid4

\* the file system get_host_id(d) leaves, lines 55-66
GetHostIdFilesMut(f, d) ==
    IF ReusesExisting(f, d) \/ storeFault \in {"mkdir", "write"} THEN f
    ELSE [f EXCEPT ![HostIdPath(d)] = [Uuid4 EXCEPT !.pad = TRUE]]
GetHostIdFiles(f, d) ==
    IF ReusesExisting(f, d) \/ storeFault \in {"mkdir", "write"} THEN f
    ELSE [f EXCEPT ![HostIdPath(d)] = Uuid4]

\* permission bits: those chmod(0o600) sets, and those write_text gives a
\* file it creates (0o666 masked by the umask of the process: 022 or 077)
OwnerOnly == "0600"
CreateModes == {"0644", "0600"}
NoMode == "none"

\* the processes that call get_host_id on the same location
Procs == {"p1", "p2"}

\* no get_host_id call is under way
ProcIdle ==
    [pc |-> "idle", host_id |-> NoFile, ret |-> NoFile, sawAbsent |-> FALSE,
     first |-> NoFile, firstSawAbsent |-> FALSE]

\* the permission bits get_host_id(d) leaves on file system f whose bits
\* were m, when write_text gives a new file the bits created
GetHostIdModes(f, m, d, created) ==
    IF ReusesExisting(f, d) \/ storeFault \in {"mkdir", "write"} THEN m
    ELSE IF storeFault = "chmod"
    THEN [m EXCEPT ![HostIdPath(d)] =
             IF f[HostIdPath(d)] = NoFile THEN created ELSE @]
    ELSE [m EXCEPT ![HostIdPath(d)] = OwnerOnly]

\* mkdir(parents=True) of the file's directory creates a missing output_dir
DirKindAfterGet(f, d) ==
    IF /\ Truthy(d)
       /\ ~ReusesExisting(f, d)
       /\ storeFault # "mkdir"
       /\ dirKind = "missing"
    THEN "dir" ELSE dirKind

\* reset_host_id, lines 119-127: the file system after the delete attempt
AfterUnlink(f, d) ==
    IF f[HostIdPath(d)] # NoFile /\ unlinkOk
    THEN [f EXCEPT ![HostIdPath(d)] = NoFile]
    ELSE f

\* initial file contents: nothing, a stored identity, one followed by a
\* newline, or text that is not a UUID
InitTexts == {NoFile,
              [kind |-> "uuid", id |-> 0, pad |-> FALSE],
              [kind |-> "uuid", id |-> 0, pad |-> TRUE],
              [kind |-> "garbage", id |-> 0, pad |-> FALSE]}

InitHostEnv(dirs, kinds, probes, faults, reads, unlinks, texts) ==
    /\ output_dir \in dirs
    /\ dirKind \in IF Truthy(output_dir) THEN kinds ELSE {"missing"}
    /\ mkdirOk \in IF Truthy(output_dir) THEN {<<TRUE, TRUE, TRUE>>}
                   ELSE probes
    /\ storeFault \in faults
    /\ readOk \in reads
    /\ unlinkOk \in unlinks
    /\ \E t \in texts :
          files = [p \in HostIdFiles |->
                     IF p = HostIdPath(output_dir) THEN t ELSE NoFile]
    /\ fileMode = [p \in HostIdFiles |->
                     IF files[p] = NoFile THEN NoMode ELSE OwnerOnly]
    /\ procs = [p \in Procs |-> ProcIdle]
    /\ nextUuid = 1
    /\ lastOp = "none"
    /\ lastRet = NoFile
    /\ lastGenerated = FALSE
    /\ lastStored = NoFile
    /\ prevOp = "none"
    /\ prevRet = NoFile
    /\ preResetGet = NoFile
    /\ resetRet = NoFile

DirKinds == {"dir", "missing", "file"}

\* outcomes of the mkdir probes of the system-wide, user and local locations
Probes == {<<a, b, TRUE>> : a \in BOOLEAN, b \in BOOLEAN}

InitHostVars ==
    InitHostEnv(OutputDirs, DirKinds, Probes,
                {"none", "mkdir", "write", "chmod"}, BOOLEAN, BOOLEAN,
                InitTexts)

\* the effect of get_host_id(output_dir) on file system f
HostIdCall(f, op) ==
    /\ nextUuid < MaxUuid
    /\ files' = GetHostIdFiles(f, output_dir)
    /\ \E created \in CreateModes :
          fileMode' = GetHostIdModes(f, [p \in HostIdFiles |->
                                           IF f[p] = NoFile THEN NoMode
                                           ELSE fileMode[p]],
                                     output_dir, created)
    /\ dirKind' = DirKindAfterGet(f, output_dir)
    /\ nextUuid' = IF ReusesExisting(f, output_dir) THEN nextUuid
                   ELSE nextUuid + 1
    /\ lastOp' = op
    /\ lastRet' = GetHostIdRet(f, output_dir)
    /\ lastGenerated' = ~ReusesExisting(f, output_dir)
    /\ lastStored' = f[HostIdPath(output_dir)]
    /\ prevOp' = lastOp
    /\ prevRet' = lastRet
    /\ UNCHANGED <<output_dir, mkdirOk, storeFault, readOk, unlinkOk, procs>>

\* get_host_id(config.output_dir)
GetHostId ==
    /\ HostIdCall(files, "get")
    /\ UNCHANGED <<preResetGet, resetRet>>

\* reset_host_id(config.output_dir)
ResetHostId ==
    /\ HostIdCall(AfterUnlink(files, output_dir), "reset")
    /\ preResetGet' = IF lastOp = "get" THEN lastRet ELSE NoFile
    /\ resetRet' = GetHostIdRet(AfterUnlink(files, output_dir), output_dir)

----------------------------------------------------------------------------
(* get_host_id statement by statement, for callers that run concurrently *)

\* what a step of process p leaves alone
StepFrame ==
    UNCHANGED <<output_dir, mkdirOk, storeFault, readOk, unlinkOk, lastOp,
                lastRet, lastGenerated, lastStored, prevOp, prevRet,
                preResetGet, resetRet>>

\* the call of p returns v; the value of its first call is kept
Returned(p, v) ==
    [procs EXCEPT ![p].pc = "done", ![p].ret = v,
                  ![p].first = IF @ = NoFile THEN v ELSE @,
                  ![p].firstSawAbsent =
                      IF procs[p].first = NoFile THEN procs[p].sawAbsent
                      ELSE @]

\* get_host_id(output_dir) is called: line 39
StepCall(p) ==
    /\ procs[p].pc \in {"idle", "done"}
    /\ procs' = [procs EXCEPT ![p].pc = "exists", ![p].host_id = NoFile,
                              ![p].ret = NoFile, ![p].sawAbsent = FALSE]
    /\ UNCHANGED <<files, fileMode, dirKind, nextUuid>>
    /\ StepFrame

\* if host_id_path.exists(): line 42
StepExists(p) ==
    /\ procs[p].pc = "exists"
    /\ procs' = IF files[HostIdPath(output_dir)] # NoFile
                THEN [procs EXCEPT ![p].pc = "read"]
                ELSE [procs EXCEPT ![p].pc = "generate",
                                   ![p].sawAbsent = TRUE]
    /\ UNCHANGED <<files, fileMode, dirKind, nextUuid>>
    /\ StepFrame

\* lines 43-50: the file is read and its text validated
StepRead(p) ==
    /\ procs[p].pc = "read"
    /\ LET stored == files[HostIdPath(output_dir)]
       IN procs' = IF /\ stored # NoFile
                      /\ readOk
                      /\ IsValidUuid(Strip(stored))
                   THEN Returned(p, Strip(stored))
                   ELSE [procs EXCEPT ![p].pc = "generate"]
    /\ UNCHANGED <<files, fileMode, dirKind, nextUuid>>
    /\ StepFrame

\* host_id = str(uuid.uuid4()): line 53
StepGenerate(p) ==
    /\ procs[p].pc = "generate"
    /\ nextUuid < MaxUuid
    /\ procs' = [procs EXCEPT ![p].pc = "mkdir", ![p].host_id = Uuid4]
    /\ nextUuid' = nextUuid + 1
    /\ UNCHANGED <<files, fileMode, dirKind>>
    /\ StepFrame

\* host_id_path.parent.mkdir(parents=True, exist_ok=True): line 57
StepMkdir(p) ==
    /\ procs[p].pc = "mkdir"
    /\ IF storeFault = "mkdir"
       THEN /\ procs' = [procs EXCEPT ![p].pc = "return"]
            /\ UNCHANGED dirKind
       ELSE /\ procs' = [procs EXCEPT ![p].pc = "write"]
            /\ dirKind' = IF Truthy(output_dir) /\ dirKind = "missing"
                          THEN "dir" ELSE dirKind
    /\ UNCHANGED <<files, fileMode, nextUuid>>
    /\ StepFrame

\* host_id_path.write_text(host_id): line 58
StepWrite(p) ==
    /\ procs[p].pc = "write"
    /\ IF storeFault = "write"
       THEN /\ procs' = [procs EXCEPT ![p].pc = "return"]
            /\ UNCHANGED <<files, fileMode>>
       ELSE /\ procs' = [procs EXCEPT ![p].pc = "chmod"]
            /\ files' = [files EXCEPT ![HostIdPath(output_dir)] =
                                          procs[p].host_id]
            /\ \E created \in CreateModes :
                  fileMode' = [fileMode EXCEPT ![HostIdPath(output_dir)] =
                                  IF @ = NoMode THEN created ELSE @]
    /\ UNCHANGED <<dirKind, nextUuid>>
    /\ StepFrame

\* host_id_path.chmod(0o600): line 60
StepChmod(p) ==
    /\ procs[p].pc = "chmod"
    /\ procs' = [procs EXCEPT ![p].pc = "return"]
    /\ fileMode' = IF storeFault = "chmod" THEN fileMode
                   ELSE [fileMode EXCEPT ![HostIdPath(output_dir)] =
                                             OwnerOnly]
    /\ UNCHANGED <<files, dirKind, nextUuid>>
    /\ StepFrame

\* return host_id: line 68
StepReturn(p) ==
    /\ procs[p].pc = "return"
    /\ procs' = Returned(p, procs[p].host_id)
    /\ UNCHANGED <<files, fileMode, dirKind, nextUuid>>
    /\ StepFrame

----------------------------------------------------------------------------
(* Collection orchestrator *)

collectVars == <<cpc, names, toRun, idx, report, invoked, failed, runs,
                 prevHostId, resetBetween>>

\* names a caller passes: the first and the last registered collector and a
\* name that is not registered
NameUniverse == {Registry[1], Registry[Len(Registry)], "bogus"}

\* collector_names: None, or a list
NamesArgs ==
    {[given |-> FALSE, list |-> <<>>]}
    \cup {[given |-> TRUE, list |-> l] :
            l \in UNION {[1..n -> NameUniverse] : n \in 0..MaxNames}}

\* what calling collector_cls() and collector.collect() can do: return, or
\* raise an exception (a subclass of Exception) from either call
CollectorOutcomes == {"ok", "init_error", "collect_error"}

\* the value a collector returns
DataOf(name) == PyDict(<<[k |-> PyStr("collector"), v |-> PyStr(name)]>>)

\* lines 119-124
CollectorsToRunMut(ns) ==
    IF ns.given
    THEN SelectSeq(Registry, LAMBDA n : n \in Range(ns.list))
    ELSE Registry
CollectorsToRun(ns) ==
    IF ns.given /\ ns.list # <<>>
    THEN SelectSeq(Registry, LAMBDA n : n \in Range(ns.list))
    ELSE Registry

\* the try block of lines 130-138 covers construction and collect()
CaughtMut(outcome) == outcome = "collect_error"
Caught(outcome) == outcome \in {"init_error", "collect_error"}

\* report.results[name] = data
RecordSuccess(r, name, data) ==
    [r EXCEPT !.results = [n \in DOMAIN r.results \cup {name} |->
                             IF n = name THEN data ELSE r.results[n]]]

\* report.errors.append(f"Collector '{name}' failed: {e}")
RecordFailureMut(r, name, e) ==
    [r EXCEPT !.errors = Append(r.errors, [collector |-> name, cause |-> e]),
              !.results = [n \in DOMAIN r.results \cup {name} |->
                             IF n = name THEN <<>> ELSE r.results[n]]]
RecordFailure(r, name, e) ==
    [r EXCEPT !.errors = Append(r.errors, [collector |-> name, cause |-> e])]

NoReport == [none |-> TRUE]

\* CollectionReport(hostname=..., host_id=..., collection_id=...), lines 111-117
NewReport(host_id, run) ==
    [hostname |-> "localhost",
     host_id |-> host_id,
     collection_id |-> [kind |-> "uuid", run |-> run],
     results |-> <<>>,
     errors |-> <<>>]

\* no collect() call is under way and the caller holds report r
CollectIdleWith(r) ==
    /\ cpc = "idle"
    /\ names = [given |-> FALSE, list |-> <<>>]
    /\ toRun = <<>>
    /\ idx = 0
    /\ report = r
    /\ invoked = <<>>
    /\ failed = {}
    /\ runs = 0
    /\ prevHostId = NoFile
    /\ resetBetween = FALSE

InitCollectVars ==
    /\ cpc = "idle"
    /\ names = [given |-> FALSE, list |-> <<>>]
    /\ toRun = <<>>
    /\ idx = 0
    /\ report = NoReport
    /\ invoked = <<>>
    /\ failed = {}
    /\ runs = 0
    /\ prevHostId = NoFile
    /\ resetBetween = FALSE

\* collect(collector_names) up to the loop, lines 105-126
CollectBegin(ns) ==
    /\ cpc \in {"idle", "returned"}
    /\ runs < MaxRuns
    /\ HostIdCall(files, "get")
    /\ UNCHANGED <<preResetGet, resetRet>>
    /\ runs' = runs + 1
    /\ names' = ns
    /\ report' = NewReport(GetHostIdRet(files, output_dir), runs + 1)
    /\ toRun' = CollectorsToRun(ns)
    /\ idx' = 1
    /\ invoked' = <<>>
    /\ failed' = {}
    /\ prevHostId' = IF cpc = "returned" THEN report.host_id ELSE NoFile
    /\ resetBetween' = FALSE
    /\ cpc' = "running"

\* one iteration of the loop, lines 128-142
RunCollectorMut(outcome) ==
    /\ cpc = "running"
    /\ idx <= Len(toRun)
    /\ invoked' = Append(invoked, toRun[idx])
    /\ IF outcome = "ok"
       THEN /\ report' = RecordSuccess(report, toRun[idx], DataOf(toRun[idx]))
            /\ UNCHANGED <<failed, cpc>>
            /\ idx' = idx + 1
       ELSE /\ failed' = failed \cup {toRun[idx]}
            /\ report' = RecordFailure(report, toRun[idx], outcome)
            /\ UNCHANGED <<cpc, idx>>
    /\ UNCHANGED <<names, toRun, runs, prevHostId, resetBetween>>
RunCollector(outcome) ==
    /\ cpc = "running"
    /\ idx <= Len(toRun)
    /\ invoked' = Append(invoked, toRun[idx])
    /\ IF outcome = "ok"
       THEN /\ report' = RecordSuccess(report, toRun[idx], DataOf(toRun[idx]))
            /\ UNCHANGED <<failed, cpc>>
            /\ idx' = idx + 1
       ELSE /\ failed' = failed \cup {toRun[idx]}
            /\ IF Caught(outcome)
               THEN /\ report' = RecordFailure(report, toRun[idx], outcome)
                    /\ idx' = idx + 1
                    /\ UNCHANGED cpc
               ELSE /\ cpc' = "raised"
                    /\ UNCHANGED <<report, idx>>
    /\ UNCHANGED <<names, toRun, runs, prevHostId, resetBetween>>

\* return report, line 144
CollectReturn ==
    /\ cpc = "running"
    /\ idx > Len(toRun)
    /\ cpc' = "returned"
    /\ UNCHANGED <<names, toRun, idx, report, invoked, failed, runs,
                   prevHostId, resetBetween>>

\* reset_host_id(config.output_dir) between two collection runs (cli.py)
ResetBetweenRuns ==
    /\ cpc \in {"idle", "returned"}
    /\ ResetHostId
    /\ resetBetween' = TRUE
    /\ UNCHANGED <<cpc, names, toRun, idx, report, invoked, failed, runs,
                   prevHostId>>

----------------------------------------------------------------------------
(* The core and the authentication bootstrap *)

coreVars == <<env, cfgFiles, corePc, uploader, coreOp, coreOutcome, lastAuth>>

DEFAULT_CONFIG_PATHS ==
    <<"/etc/snail-core/config.yaml", "~/.config/snail-core/config.yaml",
      "snail-config.yaml">>

ConfigFiles == {DEFAULT_CONFIG_PATHS[i] : i \in 1..Len(DEFAULT_CONFIG_PATHS)}

NoAuth == [ret |-> "none"]

\* no SnailCore exists; an Uploader built directly on config is at hand
CoreIdle ==
    /\ env = [SNAIL_UPLOAD_URL |-> None, SNAIL_USERNAME |-> None,
              SNAIL_PASSWORD |-> None]
    /\ cfgFiles = [p \in ConfigFiles |-> NoFile]
    /\ corePc = "unbuilt"
    /\ uploader = Uploader(config)
    /\ coreOp = "none"
    /\ coreOutcome = Nil
    /\ lastAuth = NoAuth

\* the upload pipeline's variables other than config
uploadState == <<upc, callEndpoint, request, attempt, last_error, upResult,
                 upOutcome, sent, sleeps, seenStatus, seenExc, lastOutcome>>

\* the key the server issues
IssuedKey == "issued-key"

KeyDoc(v) == JObj(<<[name |-> JStr("key"), value |-> v]>>)

\* bodies of the issuance response: an object whose key is a string, an
\* empty string or a number, an object without key, an array, null, a
\* string, and text that is not JSON
IssueBodies ==
    {Body(KeyDoc(JStr(IssuedKey)), 20), Body(KeyDoc(JStr("")), 10),
     Body(KeyDoc(JNum(5)), 9),
     Body(JObj(<<[name |-> JStr("error"), value |-> JStr("denied")]>>), 18),
     Body(JArr(<<JStr(IssuedKey)>>), 14), Body(JNull, 4),
     Body(JStr(IssuedKey), 12), NotJson(600)}

\* what requests.post of the issuance request can produce
IssueOutcomes ==
    [type : {"response"}, status : {200}, body : IssueBodies]
    \cup [type : {"response"}, status : {401, 500},
          body : {Body(KeyDoc(JStr(IssuedKey)), 20), NotJson(600)}]
    \cup [type : {"exception"}, exc : {"ConnectionError", "ReadTimeout"}]

\* response.raise_for_status() raises HTTPError
RaisesForStatus(status) == 400 <= status /\ status < 600

\* requests.exceptions.JSONDecodeError, raised by response.json()
JSONDecodeErrorBases == {"InvalidJSONError", "RequestException", "ValueError"}

\* the except clauses of lines 79 and 91
AuthHandled == {"HTTPError", "RequestException"}

\* get_api_key_from_server(upload_url, username, password) when the
\* issuance request has outcome o: the key returned or the exception that
\* escapes, and the number of requests sent
GetApiKeyFromServer(upload_url, username, password, o) ==
    IF ~Truthy(username) \/ ~Truthy(password)
    THEN [key |-> None, exc |-> None, posts |-> 0]
    ELSE IF o.type = "exception"
    THEN IF ExcBases[o.exc] \cap AuthHandled # {}
         THEN [key |-> None, exc |-> None, posts |-> 1]
         ELSE [key |-> None, exc |-> o.exc, posts |-> 1]
    ELSE IF RaisesForStatus(o.status)
    THEN [key |-> None, exc |-> None, posts |-> 1]
    ELSE IF ~o.body.json
    THEN IF JSONDecodeErrorBases \cap AuthHandled # {}
         THEN [key |-> None, exc |-> None, posts |-> 1]
         ELSE [key |-> None, exc |-> "JSONDecodeError", posts |-> 1]
    ELSE LET data == JsonLoads(o.body.doc)
         IN IF data.t # "dict"
            THEN [key |-> None, exc |-> "AttributeError", posts |-> 1]
            ELSE LET api_key == IF HasKey(data, "key") THEN Get(data, "key")
                                ELSE PyNone
                 IN IF api_key.t = "str"
                    THEN [key |-> api_key.s, exc |-> None, posts |-> 1]
                    ELSE [key |-> None, exc |-> None, posts |-> 1]

\* a configuration file: a YAML document, or text yaml.safe_load rejects
Yaml(doc) == [kind |-> "yaml", doc |-> doc]
Malformed == [kind |-> "malformed"]

\* the step of save_api_key_to_config that fails, if any
PersistFaults == {"none", "mkdir", "read", "write"}

RECURSIVE FirstExisting(_, _)
FirstExisting(f, i) ==
    IF i > Len(DEFAULT_CONFIG_PATHS) THEN 0
    ELSE IF f[DEFAULT_CONFIG_PATHS[i]] # NoFile THEN i
    ELSE FirstExisting(f, i + 1)

\* save_api_key_to_config(api_key) on configuration files f when step pf
\* fails: True / False / the exception that escapes, and the files left
SaveApiKeyToConfig(api_key, f, pf) ==
    LET found == FirstExisting(f, 1)
        config_file == DEFAULT_CONFIG_PATHS[IF found = 0 THEN 1 ELSE found]
        Escape(e) == [ret |-> "raise", exc |-> e, files |-> f]
    IN IF found = 0 /\ pf = "mkdir" THEN Escape("PermissionError")
       ELSE IF found # 0 /\ pf = "read" THEN Escape("PermissionError")
       ELSE IF found # 0 /\ f[config_file].kind = "malformed"
       THEN Escape("YAMLError")
       ELSE LET loaded == IF found # 0 /\ PyTruthy(f[config_file].doc)
                          THEN f[config_file].doc ELSE PyDict(<<>>)
            IN IF loaded.t # "dict" THEN Escape("TypeError")
               ELSE LET config_data ==
                            IF HasKey(loaded, "auth") THEN loaded
                            ELSE DictSet(loaded, "auth", PyDict(<<>>))
                    IN IF Get(config_data, "auth").t # "dict"
                       THEN Escape("TypeError")
                       ELSE IF pf = "write"
                       THEN [ret |-> "false", exc |-> None, files |-> f]
                       ELSE [ret |-> "true", exc |-> None,
                             files |-> [f EXCEPT ![config_file] =
                                 Yaml(DictSet(config_data, "auth",
                                      DictSet(Get(config_data, "auth"),
                                              "api_key", PyStr(api_key))))]]

\* if config.api_key: return True, lines 113-115
HoldsKeyMut(cfg) == FALSE
HoldsKey(cfg) == Truthy(cfg.api_key)

\* the record of one ensure_api_key call: what it returned or raised, the
\* requests it sent, what the save did, the configuration and the
\* configuration files before and after, and the server's answer
AuthCall(ret, exc, posts, saved, before, after, f0, f1, o) ==
    [ret |-> ret, exc |-> exc, posts |-> posts, saved |-> saved,
     before |-> before, config |-> after, filesBefore |-> f0, files |-> f1,
     outcome |-> o]

\* ensure_api_key(cfg, upload_url) on configuration files f, when the
\* issuance request has outcome o and step pf of the save fails
EnsureApiKey(cfg, upload_url, f, o, pf) ==
    LET url == IF Truthy(upload_url) THEN upload_url ELSE cfg.upload_url
        username == env.SNAIL_USERNAME
        password == env.SNAIL_PASSWORD
        g == GetApiKeyFromServer(url, username, password, o)
        issued == [cfg EXCEPT !.api_key = g.key]
        s == SaveApiKeyToConfig(g.key, f, pf)
    IN IF HoldsKey(cfg)
       THEN AuthCall("true", None, 0, "none", cfg, cfg, f, f, Nil)
       ELSE IF ~Truthy(url)
       THEN AuthCall("false", None, 0, "none", cfg, cfg, f, f, Nil)
       ELSE IF ~Truthy(username) \/ ~Truthy(password)
       THEN AuthCall("false", None, 0, "none", cfg, cfg, f, f, Nil)
       ELSE IF g.exc # None
       THEN AuthCall("raise", g.exc, g.posts, "none", cfg, cfg, f, f, o)
       ELSE IF ~Truthy(g.key)
       THEN AuthCall("false", None, g.posts, "none", cfg, cfg, f, f, o)
       ELSE IF s.ret = "raise"
       THEN AuthCall("raise", s.exc, g.posts, "raise", cfg, issued, f,
                     s.files, o)
       ELSE AuthCall("true", None, g.posts, s.ret, cfg, issued, f,
                     s.files, o)

\* a finished call of the core (or of an Uploader used directly)
CoreResult(op, result) == [op |-> op, result |-> result]

\* the upload pipeline returns to rest
UploadReset ==
    /\ upc' = "idle"
    /\ callEndpoint' = None
    /\ request' = Nil
    /\ attempt' = 0
    /\ last_error' = Nil
    /\ upResult' = Nil
    /\ upOutcome' = Nil
    /\ sent' = 0
    /\ sleeps' = <<>>
    /\ seenStatus' = {}
    /\ seenExc' = {}
    /\ lastOutcome' = Nil
    /\ UNCHANGED config

\* self.config.upload_url or os.environ.get("SNAIL_UPLOAD_URL")
BootstrapUrl ==
    IF Truthy(config.upload_url) THEN config.upload_url
    ELSE env.SNAIL_UPLOAD_URL

\* SnailCore(config), core.py lines 74-86
Construct(o, pf) ==
    /\ corePc = "unbuilt"
    /\ coreOp = "none"
    /\ LET r == EnsureApiKey(config, BootstrapUrl, cfgFiles, o, pf)
       IN IF Truthy(BootstrapUrl) /\ ~Truthy(config.api_key)
          THEN /\ lastAuth' = r
               /\ config' = r.config
               /\ cfgFiles' = r.files
               /\ IF r.ret = "raise"
                  THEN /\ corePc' = "failed"
                       /\ uploader' = Nil
                       /\ coreOutcome' =
                             CoreResult("init", [kind |-> "raise",
                                                 type |-> r.exc])
                  ELSE /\ corePc' = "ready"
                       /\ uploader' = IF Truthy(r.config.upload_url)
                                      THEN Uploader(r.config) ELSE Nil
                       /\ coreOutcome' =
                             CoreResult("init", [kind |-> "return"])
          ELSE /\ corePc' = "ready"
               /\ uploader' = IF Truthy(config.upload_url)
                              THEN Uploader(config) ELSE Nil
               /\ coreOutcome' = CoreResult("init", [kind |-> "return"])
               /\ UNCHANGED <<lastAuth, config, cfgFiles>>
    /\ UNCHANGED <<env, coreOp, uploadState, hostVars, collectVars>>

\* ensure_api_key(config), called before any SnailCore is built on config
EnsureCall(o, pf) ==
    /\ corePc = "unbuilt"
    /\ coreOp = "none"
    /\ LET r == EnsureApiKey(config, None, cfgFiles, o, pf)
       IN /\ lastAuth' = r
          /\ config' = r.config
          /\ cfgFiles' = r.files
    /\ UNCHANGED <<env, corePc, uploader, coreOp, coreOutcome, uploadState,
                   hostVars, collectVars>>

\* core.upload(report), core.py lines 146-162
CoreUpload ==
    /\ corePc = "ready"
    /\ coreOp = "none"
    /\ upc = "idle"
    /\ IF uploader = Nil
       THEN /\ coreOutcome' = CoreResult("upload", NoUrlError)
            /\ UNCHANGED <<coreOp, uploadVars>>
       ELSE /\ UploadCall(None)
            /\ coreOp' = "upload"
            /\ UNCHANGED coreOutcome
    /\ UNCHANGED <<env, cfgFiles, corePc, uploader, lastAuth, hostVars,
                   collectVars>>

\* Uploader(config).upload(report, endpoint): an uploader built from the
\* configuration as it is now (the construction cli.py line 291 makes) and
\* used through its public upload method
DirectUpload(endpoint) ==
    /\ coreOp = "none"
    /\ upc = "idle"
    /\ UploadWith(Uploader(config), endpoint)
    /\ coreOp' = "direct"
    /\ UNCHANGED <<env, cfgFiles, corePc, uploader, coreOutcome, lastAuth,
                   hostVars, collectVars>>

\* the upload call returns to (or raises into) its caller
UploadReturn ==
    /\ coreOp \in {"upload", "direct"}
    /\ upc = "done"
    /\ coreOutcome' = CoreResult(coreOp, upOutcome)
    /\ coreOp' = "none"
    /\ UploadReset
    /\ UNCHANGED <<env, cfgFiles, corePc, uploader, lastAuth, hostVars,
                   collectVars>>

\* collect_and_upload(names): report = self.collect(names), line 174
CAUBegin(ns) ==
    /\ corePc = "ready"
    /\ coreOp = "none"
    /\ upc = "idle"
    /\ CollectBegin(ns)
    /\ coreOp' = "cau_collect"
    /\ UNCHANGED <<env, cfgFiles, corePc, uploader, coreOutcome, lastAuth,
                   uploadVars>>

\* collect_and_upload, lines 176-186: the API key is looked for again
CAUBootstrap(o, pf) ==
    /\ coreOp = "cau_collect"
    /\ cpc = "returned"
    /\ IF uploader # Nil /\ config.upload_enabled
       THEN LET r == EnsureApiKey(config, BootstrapUrl, cfgFiles, o, pf)
            IN IF ~Truthy(config.api_key) /\ Truthy(BootstrapUrl)
               THEN /\ lastAuth' = r
                    /\ config' = r.config
                    /\ cfgFiles' = r.files
                    /\ IF r.ret = "raise"
                       THEN /\ coreOp' = "none"
                            /\ coreOutcome' =
                                  CoreResult("cau", [kind |-> "raise",
                                                     type |-> r.exc])
                            /\ UNCHANGED uploader
                       ELSE /\ coreOp' = "cau_ready"
                            /\ uploader' = IF r.ret = "true"
                                           THEN Uploader(r.config)
                                           ELSE uploader
                            /\ UNCHANGED coreOutcome
               ELSE /\ coreOp' = "cau_ready"
                    /\ UNCHANGED <<lastAuth, config, cfgFiles, uploader,
                                   coreOutcome>>
       ELSE /\ coreOp' = "none"
            /\ coreOutcome' = CoreResult("cau", [kind |-> "return",
                                                 response |-> Nil])
            /\ UNCHANGED <<lastAuth, config, cfgFiles, uploader>>
    /\ UNCHANGED <<env, corePc, uploadState, hostVars, collectVars>>

\* collect_and_upload, line 188: upload_response = self.upload(report)
CAUUpload ==
    /\ coreOp = "cau_ready"
    /\ upc = "idle"
    /\ UploadCall(None)
    /\ coreOp' = "cau_upload"
    /\ UNCHANGED <<env, cfgFiles, corePc, uploader, coreOutcome, lastAuth,
                   hostVars, collectVars>>

\* report.errors.append(f"Upload failed: {e}")
RecordUploadFailureMut(r, e) ==
    [r EXCEPT !.errors = Append(r.errors, [collector |-> None,
                                           cause |-> "Upload failed",
                                           error |-> e]),
              !.results = <<>>]
RecordUploadFailure(r, e) ==
    [r EXCEPT !.errors = Append(r.errors, [collector |-> None,
                                           cause |-> "Upload failed",
                                           error |-> e])]

\* collect_and_upload, lines 187-193: the upload raised or returned
CAUReturnMut ==
    /\ coreOp = "cau_upload"
    /\ upc = "done"
    /\ IF upOutcome.kind = "raise"
       THEN coreOutcome' = CoreResult("cau", upOutcome)
       ELSE coreOutcome' = CoreResult("cau", [kind |-> "return",
                                              response |-> upOutcome.data])
    /\ UNCHANGED report
    /\ coreOp' = "none"
    /\ UploadReset
    /\ UNCHANGED <<env, cfgFiles, corePc, uploader, lastAuth, hostVars, cpc,
                   names, toRun, idx, invoked, failed, runs, prevHostId,
                   resetBetween>>
CAUReturn ==
    /\ coreOp = "cau_upload"
    /\ upc = "done"
    /\ IF upOutcome.kind = "raise"
       THEN /\ report' = RecordUploadFailure(report, upOutcome)
            /\ coreOutcome' = CoreResult("cau", [kind |-> "return",
                                                 response |-> Nil])
       ELSE /\ coreOutcome' = CoreResult("cau", [kind |-> "return",
                                                 response |-> upOutcome.data])
            /\ UNCHANGED report
    /\ coreOp' = "none"
    /\ UploadReset
    /\ UNCHANGED <<env, cfgFiles, corePc, uploader, lastAuth, hostVars, cpc,
                   names, toRun, idx, invoked, failed, runs, prevHostId,
                   resetBetween>>

----------------------------------------------------------------------------
(* The address of the issuance request *)

\* A URL is kept as the sequence of its pieces, cut wherever one of the
\* texts the code looks for ("/", "/ingest", "/api", "/api/v1") can begin or
\* end, so that searching the sequence finds what searching the text finds.
IndexesOf(s, sub) ==
    {i \in 1..(Len(s) - Len(sub) + 1) : SubSeq(s, i, i + Len(sub) - 1) = sub}

\* sub in s
Contains(s, sub) == IndexesOf(s, sub) # {}

\* s.endswith(suf)
EndsWith(s, suf) ==
    Len(s) >= Len(suf) /\ SubSeq(s, Len(s) - Len(suf) + 1, Len(s)) = suf

\* s.rstrip("/")
RECURSIVE RStrip(_)
RStrip(s) ==
    IF s # <<>> /\ s[Len(s)] = "/" THEN RStrip(SubSeq(s, 1, Len(s) - 1))
    ELSE s

\* s.rsplit(sep, 1)[0]: what precedes the last occurrence of sep
RSplitHead(s, sep) ==
    IF ~Contains(s, sep) THEN s
    ELSE LET last == CHOOSE i \in IndexesOf(s, sep) :
                        \A j \in IndexesOf(s, sep) : j <= i
         IN SubSeq(s, 1, last - 1)

\* lines 47-52
BaseUrl(upload_url) ==
    IF Contains(upload_url, <<"/", "ingest">>)
    THEN RStrip(RSplitHead(upload_url, <<"/", "ingest">>))
    ELSE RSplitHead(RStrip(upload_url), <<"/">>)

\* lines 55-60
ApiRoot(base_url) ==
    IF EndsWith(base_url, <<"/", "api", "/", "v1">>) THEN base_url
    ELSE IF EndsWith(base_url, <<"/", "api">>) THEN base_url \o <<"/", "v1">>
    ELSE IF ~Contains(base_url, <<"/", "api">>)
    THEN base_url \o <<"/", "api", "/", "v1">>
    ELSE base_url

\* api_key_endpoint = f"{base_url}/auth/api-key", line 63
ApiKeyEndpoint(upload_url) ==
    ApiRoot(BaseUrl(upload_url)) \o <<"/", "auth", "/", "api-key">>

\* scheme and authority (host and port) of a URL; a URL without "//" after
\* its scheme or with an empty authority names no host
NoOrigin == [host |-> <<>>]

Origin(url) ==
    IF Len(url) < 4 \/ url[2] # "/" \/ url[3] # "/" \/ url[4] = "/"
    THEN NoOrigin
    ELSE LET rest == SubSeq(url, 4, Len(url))
             stop == IF Contains(rest, <<"/">>)
                     THEN CHOOSE i \in IndexesOf(rest, <<"/">>) :
                             \A j \in IndexesOf(rest, <<"/">>) : i <= j
                     ELSE Len(rest) + 1
         IN [scheme |-> url[1], host |-> SubSeq(rest, 1, stop - 1)]

\* get_api_key_from_server(upload_url, username, password) called on its
\* own: requests.post refuses a URL that names no host (InvalidURL, a
\* RequestException) before anything is sent
IssueKey(upload_url, username, password, o) ==
    /\ coreOp = "none"
    /\ upc = "idle"
    /\ LET endpoint == ApiKeyEndpoint(upload_url)
           g == IF Origin(endpoint) = NoOrigin
                THEN [key |-> None, exc |-> None, posts |-> 0]
                ELSE GetApiKeyFromServer(upload_url, username, password, o)
       IN /\ request' = IF g.posts = 0 THEN Nil
                        ELSE [url |-> endpoint,
                              json |-> [username |-> username,
                                        password |-> password]]
          /\ coreOutcome' =
                CoreResult("get_api_key",
                           [kind |-> IF g.exc = None THEN "return"
                                     ELSE "raise",
                            key |-> g.key, type |-> g.exc,
                            upload_url |-> upload_url, endpoint |-> endpoint,
                            outcome |-> IF g.posts = 0 THEN Nil ELSE o])
    /\ UNCHANGED <<config, upc, callEndpoint, attempt, last_error, upResult,
                   upOutcome, sent, sleeps, seenStatus, seenExc, lastOutcome,
                   env, cfgFiles, corePc, uploader, coreOp, lastAuth,
                   hostVars, collectVars>>

----------------------------------------------------------------------------
(* Config: to_dict, save, from_file, from_dict *)

\* the dataclass fields of Config and their defaults, config.py lines 36-62
DefaultConfig ==
    [upload_url |-> None, upload_enabled |-> TRUE, upload_timeout |-> 30,
     upload_retries |-> 3, api_key |-> None, auth_cert_path |-> None,
     auth_key_path |-> None, enabled_collectors |-> <<>>,
     disabled_collectors |-> <<>>, collection_timeout |-> 300,
     output_dir |-> "/var/lib/snail-core", keep_local_copy |-> FALSE,
     compress_output |-> TRUE, log_level |-> "INFO", log_file |-> None,
     anonymize_hostnames |-> FALSE, redact_passwords |-> TRUE,
     exclude_paths |-> <<>>]

\* known_fields = {f.name for f in cls.__dataclass_fields__.values()}
FieldNames == DOMAIN DefaultConfig

\* a str | None attribute and a list[str] attribute as Python values
OptStr(s) == IF s = None THEN PyNone ELSE PyStr(s)
StrList(l) == PyList([i \in 1..Len(l) |-> PyStr(l[i])])

Section(name, pairs) == [k |-> PyStr(name), v |-> PyDict(pairs)]
Item(name, value) == [k |-> PyStr(name), v |-> value]

\* Config.to_dict, lines 156-190
ConfigToDict(c) ==
    PyDict(<<
      Section("upload", <<Item("url", OptStr(c.upload_url)),
                          Item("enabled", PyBool(c.upload_enabled)),
                          Item("timeout", PyInt(c.upload_timeout)),
                          Item("retries", PyInt(c.upload_retries))>>),
      Section("auth", <<Item("api_key", IF Truthy(c.api_key) THEN PyStr("***")
                                        ELSE PyNone),
                        Item("cert_path", OptStr(c.auth_cert_path)),
                        Item("key_path", OptStr(c.auth_key_path))>>),
      Section("collection",
              <<Item("enabled_collectors", StrList(c.enabled_collectors)),
                Item("disabled_collectors", StrList(c.disabled_collectors)),
                Item("timeout", PyInt(c.collection_timeout))>>),
      Section("output", <<Item("dir", PyStr(c.output_dir)),
                          Item("keep_local", PyBool(c.keep_local_copy)),
                          Item("compress", PyBool(c.compress_output))>>),
      Section("logging", <<Item("level", PyStr(c.log_level)),
                           Item("file", OptStr(c.log_file))>>),
      Section("privacy",
              <<Item("anonymize_hostnames", PyBool(c.anonymize_hostnames)),
                Item("redact_passwords", PyBool(c.redact_passwords)),
                Item("exclude_paths", StrList(c.exclude_paths))>>)>>)

\* YAML nodes: scalars with their tag, sequences, and mappings whose entries
\* keep their order (sort_keys=False)
YNull == [y |-> "null"]
YBool(b) == [y |-> "bool", b |-> b]
YInt(n) == [y |-> "int", n |-> n]
YStr(s) == [y |-> "str", s |-> s]
YSeq(items) == [y |-> "seq", items |-> items]
YMap(entries) == [y |-> "map", entries |-> entries]

\* yaml.dump(v, default_flow_style=False, sort_keys=False) for the values
\* to_dict builds
RECURSIVE YamlDump(_)
YamlDump(v) ==
    CASE v.t = "NoneType" -> YNull
      [] v.t = "bool"     -> YBool(v.b)
      [] v.t = "int"      -> YInt(v.n)
      [] v.t = "str"      -> YStr(v.s)
      [] v.t = "list"     ->
            YSeq([i \in 1..Len(v.items) |-> YamlDump(v.items[i])])
      [] v.t = "dict"     ->
            YMap([i \in 1..Len(v.pairs) |->
                    [key |-> YamlDump(v.pairs[i].k),
                     value |-> YamlDump(v.pairs[i].v)]])

\* yaml.safe_load
RECURSIVE SafeLoad(_)
SafeLoad(n) ==
    CASE n.y = "null" -> PyNone
      [] n.y = "bool" -> PyBool(n.b)
      [] n.y = "int"  -> PyInt(n.n)
      [] n.y = "str"  -> PyStr(n.s)
      [] n.y = "seq"  ->
            PyList([i \in 1..Len(n.items) |-> SafeLoad(n.items[i])])
      [] n.y = "map"  ->
            PyDict([i \in 1..Len(n.entries) |->
                      [k |-> SafeLoad(n.entries[i].key),
                       v |-> SafeLoad(n.entries[i].value)]])

\* the file Config.save writes for c, lines 192-198
SavedFile(c) == Yaml(SafeLoad(YamlDump(ConfigToDict(c))))

\* the attribute value a Python value becomes when cls(**filtered) stores it
RECURSIVE Attr(_)
Attr(v) ==
    CASE v.t = "NoneType" -> None
      [] v.t = "bool"     -> v.b
      [] v.t = "int"      -> v.n
      [] v.t = "str"      -> v.s
      [] v.t = "list"     -> [i \in 1..Len(v.items) |-> Attr(v.items[i])]
      [] OTHER            -> v

\* flat[subkey] = subvalue for every item of a nested section (the keys of
\* the documents followed are strings)
RECURSIVE Update(_, _)
Update(flat, pairs) ==
    IF pairs = <<>> THEN flat
    ELSE Update(DictSet(flat, Head(pairs).k.s, Head(pairs).v), Tail(pairs))

\* the loop of from_dict, lines 80-87
RECURSIVE Flatten(_, _)
Flatten(pairs, flat) ==
    IF pairs = <<>> THEN flat
    ELSE LET p == Head(pairs)
         IN Flatten(Tail(pairs),
                    IF p.v.t = "dict" THEN Update(flat, p.v.pairs)
                    ELSE DictSet(flat, p.k.s, p.v))

\* Config.from_dict(data), lines 77-93: the keys of flat that name a
\* dataclass field are passed to the constructor, the other fields keep
\* their defaults
FromDict(data) ==
    LET flat == Flatten(data.pairs, PyDict(<<>>))
    IN [f \in FieldNames |->
          IF HasKey(flat, f) THEN Attr(Get(flat, f)) ELSE DefaultConfig[f]]

\* Config.from_file(path) on files f, lines 64-75
FromFile(f, path) ==
    IF f[path] = NoFile
    THEN [kind |-> "raise", type |-> "FileNotFoundError"]
    ELSE IF f[path].kind = "malformed"
    THEN [kind |-> "raise", type |-> "YAMLError"]
    ELSE LET data == IF PyTruthy(f[path].doc) THEN f[path].doc
                     ELSE PyDict(<<>>)
         IN IF data.t # "dict"
            THEN [kind |-> "raise", type |-> "AttributeError"]
            ELSE [kind |-> "return", path |-> path, config |-> FromDict(data)]

\* config.save(path)
ConfigSave(path) ==
    /\ coreOp = "none"
    /\ cfgFiles' = [cfgFiles EXCEPT ![path] = SavedFile(config)]
    /\ coreOutcome' = CoreResult("save", [kind |-> "return", path |-> path])
    /\ UNCHANGED <<env, corePc, uploader, coreOp, lastAuth, uploadVars,
                   hostVars, collectVars>>

\* Config.from_file(path)
ConfigFromFile(path) ==
    /\ coreOp = "none"
    /\ coreOutcome' = CoreResult("from_file", FromFile(cfgFiles, path))
    /\ UNCHANGED <<env, cfgFiles, corePc, uploader, coreOp, lastAuth,
                   uploadVars, hostVars, collectVars>>

vars == <<uploadVars, hostVars, collectVars, coreVars>>

\* the upload pipeline at rest
UploadIdle ==
    /\ config = [upload_url |-> None, upload_retries |-> 3,
                 compress_output |-> TRUE, api_key |-> None,
                 upload_enabled |-> TRUE]
    /\ upc = "idle"
    /\ callEndpoint = None
    /\ request = Nil
    /\ attempt = 0
    /\ last_error = Nil
    /\ upResult = Nil
    /\ upOutcome = Nil
    /\ sent = 0
    /\ sleeps = <<>>
    /\ seenStatus = {}
    /\ seenExc = {}
    /\ lastOutcome = Nil

\* the host identity store at rest, on a sound file system
HostIdle ==
    InitHostEnv({"/srv/out"}, {"dir"}, Probes, {"none"}, {TRUE}, {TRUE},
                {NoFile})

\* a Report as collect() builds it, handed to Uploader.upload
SampleId == [kind |-> "uuid", id |-> 0, pad |-> FALSE]

SampleReport ==
    RecordSuccess(NewReport(SampleId, 1), Registry[1], DataOf(Registry[1]))

InitUpload ==
    /\ InitUploadVars
    /\ HostIdle
    /\ CollectIdleWith(SampleReport)
    /\ CoreIdle

InitHostId == UploadIdle /\ InitHostVars /\ InitCollectVars /\ CoreIdle

NextHostId ==
    \/ GetHostId /\ UNCHANGED <<uploadVars, collectVars, coreVars>>
    \/ ResetHostId /\ UNCHANGED <<uploadVars, collectVars, coreVars>>

SpecHostId == InitHostId /\ [][NextHostId]_vars

\* the same calls on a file system whose reads and writes all succeed and
\* whose only possible fault is a failing delete
InitReset ==
    /\ UploadIdle
    /\ InitHostEnv(OutputDirs, DirKinds, Probes, {"none"}, {TRUE}, BOOLEAN,
                   InitTexts)
    /\ InitCollectVars
    /\ CoreIdle

SpecReset == InitReset /\ [][NextHostId]_vars

NextUpload ==
    \/ (\E e \in Endpoints : UploadCall(e))
          /\ UNCHANGED <<hostVars, collectVars, coreVars>>
    \/ (\E o \in Outcomes : SendRequest(o))
          /\ UNCHANGED <<hostVars, collectVars, coreVars>>
    \/ BackoffOrStop /\ UNCHANGED <<hostVars, collectVars, coreVars>>

SpecUpload == InitUpload /\ [][NextUpload]_vars

\* values a collector can return: JSON-native ones, a tuple, a dict with
\* integer keys, an object json cannot encode, and a dict whose key json.dumps
\* rejects
CollectorData ==
    {PyDict(<<>>),
     PyDict(<<[k |-> PyStr("count"), v |-> PyInt(3)],
              [k |-> PyStr("tags"), v |-> PyList(<<PyStr("a"), PyNone>>)],
              [k |-> PyStr("nested"),
               v |-> PyDict(<<[k |-> PyStr("on"), v |-> PyBool(TRUE)]>>)]>>),
     PyDict(<<[k |-> PyStr("ports"),
               v |-> PyTuple(<<PyInt(22), PyInt(80)>>)]>>),
     PyDict(<<[k |-> PyInt(1), v |-> PyStr("init")]>>),
     PyDict(<<[k |-> PyStr("boot"),
               v |-> PyObject("datetime", "2024-01-01 00:00:00")]>>),
     PyDict(<<[k |-> PyTuple(<<PyStr("eth0"), PyInt(4)>>),
               v |-> PyStr("addr")]>>)}

\* Reports collect() returns for one collector: it succeeded with one of the
\* values above, or it failed
PayloadReports ==
    {RecordSuccess(NewReport(SampleId, 1), Registry[1], d) :
        d \in CollectorData}
    \cup {RecordFailure(NewReport(SampleId, 1), Registry[1], "collect_error")}

PayloadOutcomes ==
    [type : {"response"}, status : {200, 204, 500}, body : PayloadBodies]
    \cup [type : {"exception"}, exc : {"ConnectionError"}]

\* uploads of those Reports, compressed or not, answered with bodies of
\* every JSON type
InitPayload ==
    /\ config \in [upload_url : {"https://server/api/v1/ingest"},
                    upload_retries : 1..PayloadRetries,
                    compress_output : BOOLEAN,
                    api_key : {None},
                    upload_enabled : {TRUE}]
    /\ upc = "idle"
    /\ callEndpoint = None
    /\ request = Nil
    /\ attempt = 0
    /\ last_error = Nil
    /\ upResult = Nil
    /\ upOutcome = Nil
    /\ sent = 0
    /\ sleeps = <<>>
    /\ seenStatus = {}
    /\ seenExc = {}
    /\ lastOutcome = Nil
    /\ HostIdle
    /\ \E r \in PayloadReports : CollectIdleWith(r)
    /\ CoreIdle

NextPayload ==
    \/ UploadCall(None) /\ UNCHANGED <<hostVars, collectVars, coreVars>>
    \/ (\E o \in PayloadOutcomes : SendRequest(o))
          /\ UNCHANGED <<hostVars, collectVars, coreVars>>
    \/ BackoffOrStop /\ UNCHANGED <<hostVars, collectVars, coreVars>>

SpecPayload == InitPayload /\ [][NextPayload]_vars

\* collection runs: the configured directory is unset (and the system-wide
\* location cannot be created) or the default one, and the host-id file,
\* present or not, may or may not be writable
InitCollect ==
    /\ UploadIdle
    /\ InitHostEnv({None, "/var/lib/snail-core"}, {"dir", "missing"},
                   {<<FALSE, TRUE, TRUE>>}, {"none", "write"}, {TRUE}, {TRUE},
                   {NoFile, [kind |-> "uuid", id |-> 0, pad |-> FALSE]})
    /\ InitCollectVars
    /\ CoreIdle

NextCollect ==
    \/ (\E ns \in NamesArgs : CollectBegin(ns)) /\ UNCHANGED <<uploadVars, coreVars>>
    \/ (\E oc \in CollectorOutcomes : RunCollector(oc))
          /\ UNCHANGED <<uploadVars, hostVars, coreVars>>
    \/ CollectReturn /\ UNCHANGED <<uploadVars, hostVars, coreVars>>
    \/ ResetBetweenRuns /\ UNCHANGED <<uploadVars, coreVars>>

SpecCollect == InitCollect /\ [][NextCollect]_vars

\* configuration files found at start: none, a mapping of other settings, a
\* mapping that already has an auth section, an empty file, a sequence, a
\* mapping whose auth entry is a scalar, text that is not YAML
InitConfigDocs ==
    {NoFile,
     Yaml(PyDict(<<[k |-> PyStr("upload"), v |-> PyStr("settings")]>>)),
     Yaml(PyDict(<<[k |-> PyStr("auth"),
                    v |-> PyDict(<<[k |-> PyStr("api_key"),
                                    v |-> PyStr("stale-key")]>>)]>>)),
     Yaml(PyNone),
     Yaml(PyList(<<PyStr("upload")>>)),
     Yaml(PyDict(<<[k |-> PyStr("auth"), v |-> PyStr("token")]>>)),
     Malformed}

\* answers to an upload made through the core
CoreOutcomes ==
    {[type |-> "response", status |-> 200, body |-> Body(JObj(<<>>), 2)],
     [type |-> "response", status |-> 500, body |-> NotJson(600)],
     [type |-> "exception", exc |-> "ConnectionError"]}

\* the names collect_and_upload is called with
CoreNames == [given |-> TRUE, list |-> <<Registry[1]>>]

InitCoreWith(envs, docs) ==
    /\ config \in [upload_url : {None, "https://server/api/v1/ingest"},
                    upload_retries : {CoreRetries},
                    compress_output : {TRUE},
                    api_key : {None, "configured-key"},
                    upload_enabled : BOOLEAN]
    /\ upc = "idle"
    /\ callEndpoint = None
    /\ request = Nil
    /\ attempt = 0
    /\ last_error = Nil
    /\ upResult = Nil
    /\ upOutcome = Nil
    /\ sent = 0
    /\ sleeps = <<>>
    /\ seenStatus = {}
    /\ seenExc = {}
    /\ lastOutcome = Nil
    /\ HostIdle
    /\ CollectIdleWith(SampleReport)
    /\ env \in envs
    /\ \E d \in docs, i \in 1..2 :
          cfgFiles = [p \in ConfigFiles |->
                        IF p = DEFAULT_CONFIG_PATHS[i] THEN d ELSE NoFile]
    /\ corePc = "unbuilt"
    /\ uploader = Nil
    /\ coreOp = "none"
    /\ coreOutcome = Nil
    /\ lastAuth = NoAuth

\* the bootstrap credentials: both set, or one of them missing
CredentialEnvs ==
    [SNAIL_UPLOAD_URL : {None, "https://env/api/v1/ingest"},
     SNAIL_USERNAME : {"admin"}, SNAIL_PASSWORD : {"secret"}]
    \cup [SNAIL_UPLOAD_URL : {"https://env/api/v1/ingest"},
          SNAIL_USERNAME : {None}, SNAIL_PASSWORD : {"secret"}]
    \cup [SNAIL_UPLOAD_URL : {"https://env/api/v1/ingest"},
          SNAIL_USERNAME : {"admin"}, SNAIL_PASSWORD : {None}]

\* ensure_api_key on its own and inside the SnailCore constructor, for
\* every answer of the server and every state of the configuration files
InitAuth == InitCoreWith(CredentialEnvs, InitConfigDocs)

NextAuth ==
    \/ \E o \in IssueOutcomes, pf \in PersistFaults : Construct(o, pf)
    \/ \E o \in IssueOutcomes, pf \in PersistFaults : EnsureCall(o, pf)

SpecAuth == InitAuth /\ [][NextAuth]_vars

\* what the issuance request and the save do while a core is followed: the
\* key is issued or the server cannot be reached, and the configuration
\* directory can or cannot be created
CoreIssueOutcomes ==
    {[type |-> "response", status |-> 200,
      body |-> Body(KeyDoc(JStr(IssuedKey)), 20)],
     [type |-> "exception", exc |-> "ConnectionError"]}

CorePersistFaults == {"none", "mkdir"}

InitCore ==
    InitCoreWith([SNAIL_UPLOAD_URL : {None, "https://env/api/v1/ingest"},
                  SNAIL_USERNAME : {"admin"}, SNAIL_PASSWORD : {"secret"}],
                 {NoFile})

NextCore ==
    \/ \E o \in CoreIssueOutcomes, pf \in CorePersistFaults :
          Construct(o, pf)
    \/ CoreUpload
    \/ \E e \in Endpoints : DirectUpload(e)
    \/ (\E o \in CoreOutcomes : SendRequest(o))
          /\ UNCHANGED <<hostVars, collectVars, coreVars>>
    \/ BackoffOrStop /\ UNCHANGED <<hostVars, collectVars, coreVars>>
    \/ UploadReturn
    \/ CAUBegin(CoreNames)
    \/ (\E oc \in CollectorOutcomes : RunCollector(oc))
          /\ UNCHANGED <<uploadVars, hostVars, coreVars>>
    \/ CollectReturn /\ UNCHANGED <<uploadVars, hostVars, coreVars>>
    \/ \E o \in CoreIssueOutcomes, pf \in CorePersistFaults :
          CAUBootstrap(o, pf)
    \/ CAUUpload
    \/ CAUReturn

SpecCore == InitCore /\ [][NextCore]_vars

\* two processes call get_host_id on /srv/out, where no host-id file or one
\* with unusable text exists; the write or the chmod may fail
InitHostSteps ==
    /\ UploadIdle
    /\ InitHostEnv({"/srv/out"}, {"dir", "missing"}, Probes,
                   {"none", "mkdir", "write", "chmod"}, {TRUE}, {TRUE},
                   {NoFile, [kind |-> "garbage", id |-> 0, pad |-> FALSE]})
    /\ InitCollectVars
    /\ CoreIdle

NextHostSteps ==
    \/ \E p \in Procs :
          StepCall(p) /\ UNCHANGED <<uploadVars, collectVars, coreVars>>
    \/ \E p \in Procs :
          StepExists(p) /\ UNCHANGED <<uploadVars, collectVars, coreVars>>
    \/ \E p \in Procs :
          StepRead(p) /\ UNCHANGED <<uploadVars, collectVars, coreVars>>
    \/ \E p \in Procs :
          StepGenerate(p) /\ UNCHANGED <<uploadVars, collectVars, coreVars>>
    \/ \E p \in Procs :
          StepMkdir(p) /\ UNCHANGED <<uploadVars, collectVars, coreVars>>
    \/ \E p \in Procs :
          StepWrite(p) /\ UNCHANGED <<uploadVars, collectVars, coreVars>>
    \/ \E p \in Procs :
          StepChmod(p) /\ UNCHANGED <<uploadVars, collectVars, coreVars>>
    \/ \E p \in Procs :
          StepReturn(p) /\ UNCHANGED <<uploadVars, collectVars, coreVars>>

SpecHostSteps == InitHostSteps /\ [][NextHostSteps]_vars

\* upload URLs: the documented one, one without path, one with a trailing
\* slash, ones without ingest segment, ones whose API root is partial, and
\* ones whose host name begins with ingest
IssueUrls ==
    {<<"http:", "/", "/", "localhost", ":8080", "/", "api", "/", "v1", "/",
       "ingest">>,
     <<"https:", "/", "/", "server">>,
     <<"https:", "/", "/", "server", "/">>,
     <<"https:", "/", "/", "server", "/", "upload">>,
     <<"https:", "/", "/", "server", "/", "api", "/", "v1", "/", "upload">>,
     <<"https:", "/", "/", "server", "/", "api", "/", "ingest">>,
     <<"https:", "/", "/", "server", "/", "ingest", "/">>,
     <<"https:", "/", "/", "ingest", ".example.com", "/", "api", "/", "v1",
       "/", "upload">>,
     <<"https:", "/", "/", "ingest", ".example.com", "/", "api", "/", "v1",
       "/", "ingest">>,
     <<"https:", "/", "/", "ingest", ".example.com">>}

InitIssue == UploadIdle /\ HostIdle /\ InitCollectVars /\ CoreIdle

NextIssue ==
    \E u \in IssueUrls, username \in {None, "admin"},
       password \in {None, "secret"}, o \in IssueOutcomes :
          IssueKey(u, username, password, o)

SpecIssue == InitIssue /\ [][NextIssue]_vars

\* a value of each field other than its default (the values of
\* test_save_round_trip_all_fields where they differ from the defaults)
OtherConfig ==
    [upload_url |-> "https://full.example.com/api", upload_enabled |-> FALSE,
     upload_timeout |-> 60, upload_retries |-> 5, api_key |-> "secret-key",
     auth_cert_path |-> "/full/cert.pem", auth_key_path |-> "/full/key.pem",
     enabled_collectors |-> <<"system">>,
     disabled_collectors |-> <<"logs", "network">>,
     collection_timeout |-> 600, output_dir |-> "/full/output",
     keep_local_copy |-> TRUE, compress_output |-> FALSE,
     log_level |-> "DEBUG", log_file |-> "/full/log.log",
     anonymize_hostnames |-> TRUE, redact_passwords |-> FALSE,
     exclude_paths |-> <<"/tmp">>]

\* Configs that differ from the defaults in no field, in one, or in all
Configs ==
    {[f \in FieldNames |-> IF f \in D THEN OtherConfig[f]
                           ELSE DefaultConfig[f]] :
        D \in {{}} \cup {{f} : f \in FieldNames} \cup {FieldNames}}

\* files present before anything is saved: a file of flat keys, an empty
\* file, a file holding a sequence
ConfigDocs ==
    {NoFile,
     Yaml(PyDict(<<Item("upload_url", PyStr("https://flat.example.com/api")),
                   Item("upload_retries", PyInt(5))>>)),
     Yaml(PyNone),
     Yaml(PyList(<<PyStr("upload")>>))}

InitConfig ==
    /\ config \in Configs
    /\ upc = "idle"
    /\ callEndpoint = None
    /\ request = Nil
    /\ attempt = 0
    /\ last_error = Nil
    /\ upResult = Nil
    /\ upOutcome = Nil
    /\ sent = 0
    /\ sleeps = <<>>
    /\ seenStatus = {}
    /\ seenExc = {}
    /\ lastOutcome = Nil
    /\ HostIdle
    /\ InitCollectVars
    /\ env = [SNAIL_UPLOAD_URL |-> None, SNAIL_USERNAME |-> None,
              SNAIL_PASSWORD |-> None]
    /\ \E d \in ConfigDocs :
          cfgFiles = [p \in ConfigFiles |->
                        IF p = DEFAULT_CONFIG_PATHS[1] THEN d ELSE NoFile]
    /\ corePc = "unbuilt"
    /\ uploader = Nil
    /\ coreOp = "none"
    /\ coreOutcome = Nil
    /\ lastAuth = NoAuth

NextConfig ==
    \/ \E p \in ConfigFiles : ConfigSave(p)
    \/ \E p \in ConfigFiles : ConfigFromFile(p)

SpecConfig == InitConfig /\ [][NextConfig]_vars

----------------------------------------------------------------------------
(* Properties of the upload pipeline, checked under SpecUpload *)

TerminalSet == {400, 401, 403, 404}

Is2xx(status) == 200 <= status /\ status <= 299

\* the statuses and exception classes after which the code takes the retry path
FailureStatuses == {st \in Statuses : 400 <= st /\ st < 600} \ TerminalSet

LastIsResponse == sent > 0 /\ lastOutcome.type = "response"

RaisedUploadError ==
    /\ upc = "done"
    /\ upOutcome.kind = "raise"
    /\ upOutcome.type = "UploadError"

\* C3: a response with status 400, 401, 403 or 404 ends the upload at that
\* attempt: it is the last request, no sleep follows it, an UploadError naming
\* the status and the number of requests sent is raised; when it is the first
\* response, exactly one request was sent and the error states 1 attempt.
C3_TerminalState ==
    (seenStatus \cap TerminalSet # {}) =>
        /\ LastIsResponse
        /\ lastOutcome.status \in TerminalSet
        /\ seenStatus \cap TerminalSet = {lastOutcome.status}
        /\ RaisedUploadError
        /\ upOutcome.cause.msg = "HTTP"
        /\ upOutcome.cause.status = lastOutcome.status
        /\ upOutcome.attempts = sent
        /\ Len(sleeps) = sent - 1
        /\ (seenStatus \subseteq TerminalSet /\ seenExc = {} =>
                sent = 1 /\ upOutcome.attempts = 1)

C3_TerminalStatusEndsUpload ==
    /\ []C3_TerminalState
    /\ [][(seenStatus \cap TerminalSet # {}) =>
             sent' = sent /\ sleeps' = sleeps /\ upOutcome' = upOutcome]_vars

C3_Witness ==
    /\ upc = "done"
    /\ sent = 1
    /\ config.upload_retries = 3
    /\ lastOutcome.type = "response"
    /\ lastOutcome.status = 401
    /\ upOutcome.kind = "raise"
    /\ upOutcome.attempts = 1

ClaimRetryable(o) ==
    \/ o.type = "exception"
    \/ o.type = "response" /\ ~Is2xx(o.status) /\ o.status \notin TerminalSet

C5_NonSuccessIsRetried ==
    (sent > 0 /\ ClaimRetryable(lastOutcome)) =>
        /\ upResult = Nil \/ ~upResult.success
        /\ upOutcome = Nil \/ RaisedUploadError
        /\ (upc = "done" => sent = config.upload_retries)
        /\ (upc = "attempt" => Len(sleeps) = sent)

\* C6: the i-th sleep of an upload, which precedes attempt k = i+1, lasts
\* min(2^(k-1), 30) seconds; no sleep precedes attempt 1 and none follows the
\* attempt on which the upload ends.
C6_BackoffSchedule ==
    /\ \A i \in 1..Len(sleeps) :
          sleeps[i] = (IF i <= 4 THEN Pow2(i) ELSE 30)
    /\ (upc = "idle" => sleeps = <<>> /\ sent = 0)
    /\ (upc = "attempt" => Len(sleeps) = sent /\ attempt = sent + 1)
    /\ (upc = "backoff" => Len(sleeps) = sent - 1)
    /\ (upc = "done" => Len(sleeps) = (IF sent = 0 THEN 0 ELSE sent - 1))

C6_Witness ==
    /\ upc = "done"
    /\ Len(sleeps) >= 5
    /\ SubSeq(sleeps, 1, 5) = <<2, 4, 8, 16, 30>>
    /\ sent = config.upload_retries

\* C7: when attempt k receives a 2xx response (all earlier attempts having
\* failed retryably), the upload ends there: k requests sent, k-1 sleeps,
\* nothing sent afterwards, success reported with attempt count k.
C7_SuccessState ==
    (\E st \in seenStatus : Is2xx(st)) =>
        /\ LastIsResponse
        /\ Is2xx(lastOutcome.status)
        /\ seenStatus \ {lastOutcome.status} \subseteq FailureStatuses
        /\ upc = "done"
        /\ upOutcome.kind = "return"
        /\ upResult.success
        /\ upResult.attempts = sent
        /\ upResult.status_code = lastOutcome.status
        /\ sent <= config.upload_retries
        /\ Len(sleeps) = sent - 1

C7_SuccessAfterRetries ==
    /\ []C7_SuccessState
    /\ [][(\E st \in seenStatus : Is2xx(st)) =>
             sent' = sent /\ sleeps' = sleeps /\ upOutcome' = upOutcome]_vars

C7_Witness ==
    /\ upc = "done"
    /\ sent = 3
    /\ Len(sleeps) = 2
    /\ seenStatus = {500, 204}
    /\ upResult.success
    /\ upResult.attempts = 3

----------------------------------------------------------------------------
(* Properties of the collection orchestrator, checked under SpecCollect *)

ErrorsNaming(n) == {i \in 1..Len(report.errors) : report.errors[i].collector = n}

\* C1: when collect() returns for a working set of N collectors of which K
\* raised, the Report has exactly N-K results entries and K errors entries;
\* a failing collector is named by exactly one errors entry and is no results
\* key, a succeeding one is a results key and is named by no errors entry;
\* for N = 0 both are empty.
C1_ReportAccounting ==
    cpc = "returned" =>
        /\ Cardinality(DOMAIN report.results)
              = Len(toRun) - Cardinality(failed)
        /\ Len(report.errors) = Cardinality(failed)
        /\ \A n \in failed :
              /\ Cardinality(ErrorsNaming(n)) = 1
              /\ n \notin DOMAIN report.results
        /\ \A n \in Range(toRun) \ failed :
              /\ n \in DOMAIN report.results
              /\ ErrorsNaming(n) = {}
        /\ (toRun = <<>> => report.results = <<>> /\ report.errors = <<>>)

C1_Witness ==
    /\ cpc = "returned"
    /\ Len(toRun) = 3
    /\ Cardinality(failed) = 2
    /\ Len(report.errors) = 2
    /\ Cardinality(DOMAIN report.results) = 1

\* C2: a collector that raises, while being constructed or while collecting,
\* at any position, never makes collect() raise: every collector of the
\* working set is still invoked, a Report is returned, and the results
\* entries of the others are what those collectors return in any run.
C2_FailureIsolation ==
    /\ cpc # "raised"
    /\ (cpc = "running" => invoked = SubSeq(toRun, 1, idx - 1))
    /\ (cpc = "returned" =>
          /\ invoked = toRun
          /\ DOMAIN report.results = Range(toRun) \ failed
          /\ \A n \in DOMAIN report.results : report.results[n] = DataOf(n))

C2_Witness ==
    /\ cpc = "returned"
    /\ Len(toRun) = 3
    /\ failed = {toRun[1], toRun[3]}
    /\ report.errors[1].cause = "init_error"
    /\ report.errors[2].cause = "collect_error"
    /\ report.results[toRun[2]] = DataOf(toRun[2])

\* C9 (as claimed): the Report of a collect() call carries the host_id of the
\* Report of the previous collect() call unless reset_host_id was called in
\* between, whatever the output directory and whether or not the host-id
\* location can be written.
C9_HostIdStableAcrossRuns ==
    (cpc \in {"running", "returned"} /\ prevHostId # NoFile /\ ~resetBetween)
        => report.host_id = prevHostId

----------------------------------------------------------------------------
(* Properties of the host identity store, checked under SpecHostId *)

\* C8 (as claimed): reset_host_id returns an identity different from the one
\* the preceding get_host_id returned, and every later get_host_id returns
\* the value the reset returned, whether or not the delete succeeds.
C8_ResetChangesIdentity ==
    /\ (lastOp = "reset" /\ preResetGet # NoFile => lastRet # preResetGet)
    /\ (lastOp = "get" /\ resetRet # NoFile => lastRet = resetRet)

\* no step of the store block, and no read, fails
IntactFilesystem == storeFault = "none" /\ readOk

\* C10: on an intact file system, a get_host_id call that directly follows
\* another one returns the identical string, and after a generating call
\* the host-id file holds exactly the returned string.
C10_GetHostIdRepeatable ==
    IntactFilesystem =>
        /\ (lastOp = "get" /\ prevOp = "get" => lastRet = prevRet)
        /\ (lastOp = "get" /\ lastGenerated =>
                files[HostIdPath(output_dir)] = lastRet)

C10_Witness ==
    /\ IntactFilesystem
    /\ lastOp = "get"
    /\ prevOp = "get"
    /\ ~lastGenerated
    /\ lastRet.id = 1
    /\ lastRet = prevRet
    /\ files[HostIdPath(output_dir)] = lastRet

\* the stored identity can be used: the file exists, can be read and holds a
\* UUID, with or without surrounding white space
StoredIsUsable ==
    /\ lastStored # NoFile
    /\ readOk
    /\ lastStored.kind = "uuid"

\* C11 (as claimed): when get_host_id uses the stored identity, the value
\* it returns is the content of the file, unchanged.
C11_ReturnsStoredUnchanged ==
    (lastOp = "get" /\ ~lastGenerated) => lastRet = lastStored

\* C11 (amended): get_host_id uses the stored identity exactly when the file
\* exists, can be read and holds a valid UUID, and then returns its content
\* with surrounding white space removed; in every other case it returns a
\* newly generated valid UUID, which replaces the file content when the
\* write succeeds; no read, mkdir, write or chmod failure is raised.
C11_StoredOrGenerated ==
    lastOp = "get" =>
        /\ lastRet # Raised
        /\ ~lastGenerated <=> StoredIsUsable
        /\ ~lastGenerated =>
              /\ lastRet.kind = lastStored.kind
              /\ lastRet.id = lastStored.id
              /\ ~lastRet.pad
              /\ files[HostIdPath(output_dir)] = lastStored
        /\ lastGenerated =>
              /\ lastRet.kind = "uuid"
              /\ ~lastRet.pad
              /\ lastRet.id = nextUuid - 1
              /\ lastRet # lastStored
              /\ storeFault \in {"none", "chmod"} =>
                    files[HostIdPath(output_dir)] = lastRet

\* an unreadable file is replaced although chmod then fails
C11_Witness ==
    /\ lastOp = "get"
    /\ lastGenerated
    /\ lastStored # NoFile
    /\ ~readOk
    /\ storeFault = "chmod"
    /\ lastRet.kind = "uuid"
    /\ files[HostIdPath(output_dir)] = lastRet

----------------------------------------------------------------------------
(* The working set of a collection run, checked under SpecCollect *)

\* the names passed to collect() that are not registered
Unregistered == Range(names.list) \ Range(Registry)

\* C12: the working set of collect(names) is every registered collector when
\* names is absent or empty, otherwise exactly the registered collectors
\* whose name occurs in names; a name that is not registered gets no results
\* entry and no errors entry and does not make collect() fail.
C12_WorkingSet ==
    cpc # "idle" =>
        /\ Range(toRun) =
              IF ~names.given \/ Len(names.list) = 0
              THEN Range(Registry)
              ELSE {n \in Range(Registry) :
                      \E i \in 1..Len(names.list) : names.list[i] = n}
        /\ Len(toRun) = Cardinality(Range(toRun))
        /\ cpc # "raised"
        /\ \A n \in Unregistered :
              /\ n \notin DOMAIN report.results
              /\ ErrorsNaming(n) = {}

C12_Witness ==
    /\ cpc = "returned"
    /\ names.given
    /\ Unregistered # {}
    /\ toRun = <<Registry[1]>>
    /\ DOMAIN report.results = {Registry[1]}
    /\ report.errors = <<>>

----------------------------------------------------------------------------
(* Properties of the payloads, checked under SpecPayload *)

\* the upload ended on a 2xx response
Success2xx == upc = "done" /\ LastIsResponse /\ Is2xx(lastOutcome.status)

\* the documents whose decoded value Python treats as false
FalsyDocs == {JNull, JBool(FALSE), JNum(0), JStr(""), JArr(<<>>), JObj(<<>>)}

EmptyObject == PyDict(<<>>)

\* C14 (as claimed): on a 2xx response whose body can be decoded, upload
\* returns exactly the decoded payload, whatever its JSON type.
C14_ReturnsDecodedPayload ==
    (Success2xx /\ lastOutcome.body.json) =>
        /\ upOutcome.kind = "return"
        /\ upOutcome.data = JsonLoads(lastOutcome.body.doc)

\* C14 (what upload does): on a 2xx response upload never raises; it returns
\* the decoded payload when that is a non-empty object, array or string, a
\* non-zero number or true, an empty object when the payload is null, false,
\* zero, an empty string, an empty array or an empty object, and the
\* fallback payload (status "ok", first 500 characters of the raw body) when
\* the body cannot be decoded.
C14_PayloadOrEmptyObject ==
    Success2xx =>
        /\ upOutcome.kind = "return"
        /\ LET body == lastOutcome.body
               data == upOutcome.data
           IN IF body.json
              THEN IF body.doc \in FalsyDocs
                   THEN data = EmptyObject
                   ELSE data = JsonLoads(body.doc) /\ data # EmptyObject
              ELSE /\ data.t = "dict"
                   /\ Len(data.pairs) = 2
                   /\ data.pairs[1] = [k |-> PyStr("status"), v |-> PyStr("ok")]
                   /\ data.pairs[2].k = PyStr("raw")
                   /\ data.pairs[2].v.ref.len = Min(body.len, 500)

\* an empty array came back on the second attempt
C14_Witness ==
    /\ Success2xx
    /\ sent = 2
    /\ lastOutcome.body.doc = JArr(<<>>)
    /\ upOutcome.kind = "return"
    /\ upOutcome.data = EmptyObject

\* what a receiver does with the posted bytes
Gunzip(z) == z.member
Utf8Decode(b) == b.text

\* the bytes the same upload posts with the other compression setting
OtherData == RequestData(report, ~config.compress_output)

RECURSIVE JsonNative(_)
JsonNative(v) ==
    CASE v.t \in {"NoneType", "bool", "int", "str"} -> TRUE
      [] v.t = "list" -> \A i \in 1..Len(v.items) : JsonNative(v.items[i])
      [] v.t = "dict" -> \A i \in 1..Len(v.pairs) :
                            /\ v.pairs[i].k.t = "str"
                            /\ JsonNative(v.pairs[i].v)
      [] OTHER -> FALSE

\* the posted body as the receiver decodes it
Decoded ==
    JsonLoads(Utf8Decode(IF request.headers.Content_Encoding = "gzip"
                         THEN Gunzip(request.data) ELSE request.data))

DecodedMetaMatches ==
    LET meta == Get(Decoded, "meta")
    IN /\ Get(meta, "hostname") = PyStr(report.hostname)
       /\ Get(meta, "host_id") = PyRef(report.host_id)
       /\ Get(meta, "collection_id") = PyRef(report.collection_id)

\* C16 (as claimed): the decoded body carries the Report's hostname, host_id
\* and collection_id, and its data map is deep-equal to the results map,
\* whatever values the collectors returned.
C16_RoundTripAnyValues ==
    request # Nil =>
        /\ DecodedMetaMatches
        /\ Len(Get(Decoded, "data").pairs) = Cardinality(DOMAIN report.results)
        /\ \A n \in DOMAIN report.results :
              Get(Get(Decoded, "data"), n) = report.results[n]

\* C16 (amended): the decoded body carries the Report's hostname, host_id
\* and collection_id, its data map has the keys of the results map, and the
\* value under a key equals the collector's value when that value is made
\* of None, booleans, integers, strings, lists and string-keyed dicts; a
\* Report holding a dict key json.dumps rejects is not serialised at all.
C16_RoundTripJsonValues ==
    /\ request # Nil =>
          /\ DecodedMetaMatches
          /\ Len(Get(Decoded, "data").pairs)
                = Cardinality(DOMAIN report.results)
          /\ \A n \in DOMAIN report.results :
                JsonNative(report.results[n]) =>
                    Get(Get(Decoded, "data"), n) = report.results[n]
    /\ (upc # "idle" /\ request = Nil) =>
          /\ upOutcome.kind = "raise"
          /\ upOutcome.type = "TypeError"
          /\ \E n \in DOMAIN report.results : ~JsonNative(report.results[n])

C16_Witness ==
    /\ request # Nil
    /\ sent >= 1
    /\ \E n \in DOMAIN report.results :
          /\ JsonNative(report.results[n])
          /\ Len(report.results[n].pairs) = 3
          /\ Get(Get(Decoded, "data"), n) = report.results[n]

----------------------------------------------------------------------------
(* Properties of the core's uploads, checked under SpecCore *)

ValueErrorRaised == [kind |-> "raise", type |-> "ValueError"]

\* an upload call that found no URL ended without a request, retry or sleep
C13_UploaderState ==
    (upc = "done" /\ ~Truthy(callEndpoint) /\ ~Truthy(config.upload_url)) =>
        /\ upOutcome = ValueErrorRaised
        /\ request = Nil
        /\ sent = 0
        /\ attempt = 0
        /\ sleeps = <<>>

\* a core.upload call on a core without uploader raises ValueError and
\* leaves the upload pipeline untouched
C13_CoreStep ==
    (/\ corePc = "ready"
     /\ uploader = Nil
     /\ coreOp = "none"
     /\ coreOutcome' # coreOutcome
     /\ coreOutcome'.op = "upload")
    => /\ coreOutcome'.result = ValueErrorRaised
       /\ UNCHANGED uploadVars

\* C13: with no endpoint URL configured and none passed, Uploader.upload
\* raises ValueError (not UploadError) before any request, retry or sleep;
\* SnailCore.upload does the same when the core has no uploader.
C13_NoUrlIsValueError ==
    /\ []C13_UploaderState
    /\ [][C13_CoreStep]_vars
    /\ [](uploader = Nil => coreOp \notin {"upload", "cau_upload"})

\* core.upload raised ValueError, then Uploader(config).upload did
C13_Witness ==
    /\ corePc = "ready"
    /\ uploader = Nil
    /\ coreOutcome # Nil
    /\ coreOutcome.op = "upload"
    /\ coreOutcome.result.type = "ValueError"
    /\ coreOp = "direct"
    /\ upc = "done"
    /\ upOutcome.type = "ValueError"
    /\ sent = 0

\* C17 (as claimed): a request of an upload made through the core carries
\* X-API-Key equal to the API key the configuration holds at that time, and
\* no X-API-Key header when it holds none.
C17_ApiKeyHeader ==
    (request # Nil /\ coreOp \in {"upload", "cau_upload"}) =>
        request.headers.X_API_Key =
            (IF Truthy(config.api_key) THEN config.api_key ELSE None)

----------------------------------------------------------------------------
(* Properties of the API key bootstrap, checked under SpecAuth *)

AuthCalled == lastAuth # NoAuth

\* the call sent nothing, wrote nothing and left config as it was
AuthLeftNoTrace ==
    /\ lastAuth.posts = 0
    /\ lastAuth.saved = "none"
    /\ lastAuth.files = lastAuth.filesBefore
    /\ lastAuth.config = lastAuth.before
    /\ config = lastAuth.before
    /\ cfgFiles = lastAuth.filesBefore

\* C18: ensure_api_key sends no request, writes no file and leaves config
\* unchanged when config already holds a credential (it returns true, on
\* every repeated call) and when the bootstrap username or password is
\* absent (it returns false).
C18_NoBootstrapNoEffect ==
    AuthCalled =>
        /\ Truthy(lastAuth.before.api_key) =>
              lastAuth.ret = "true" /\ AuthLeftNoTrace
        /\ (/\ ~Truthy(lastAuth.before.api_key)
            /\ ~Truthy(env.SNAIL_USERNAME) \/ ~Truthy(env.SNAIL_PASSWORD)) =>
              lastAuth.ret = "false" /\ AuthLeftNoTrace

\* a call repeated after the bootstrap succeeded
C18_Witness ==
    /\ AuthCalled
    /\ lastAuth.before.api_key = IssuedKey
    /\ lastAuth.ret = "true"
    /\ lastAuth.posts = 0
    /\ config.api_key = IssuedKey

\* the issuance response holds a string key: a 2xx status and a JSON object
\* whose key member is a string
YieldsStringKey(o) ==
    /\ o.type = "response"
    /\ Is2xx(o.status)
    /\ o.body.json
    /\ o.body.doc.j = "object"
    /\ \E i \in 1..Len(o.body.doc.members) :
          /\ o.body.doc.members[i].name = JStr("key")
          /\ o.body.doc.members[i].value.j = "string"

\* C19 (as claimed): whenever the issuance request does not yield a string
\* key (network failure, HTTP error status, body that is not JSON, JSON body
\* that is not an object, object without key or with a non-string key),
\* ensure_api_key returns false, raises nothing, leaves the credential unset
\* and writes no file.
C19_NoKeyReturnsFalse ==
    (AuthCalled /\ lastAuth.posts = 1 /\ ~YieldsStringKey(lastAuth.outcome))
        => /\ lastAuth.ret = "false"
           /\ ~Truthy(config.api_key)
           /\ lastAuth.saved = "none"
           /\ cfgFiles = lastAuth.filesBefore
           /\ corePc # "failed"

\* C20 (as claimed): once the server has issued a key, ensure_api_key stores
\* it in config and returns true whatever happens while it is persisted;
\* nothing is raised, out of the SnailCore constructor either.
C20_IssuedKeyIsKept ==
    (/\ AuthCalled
     /\ lastAuth.posts = 1
     /\ YieldsStringKey(lastAuth.outcome)
     /\ lastAuth.outcome.body.doc.members[1].value # JStr(""))
        => /\ lastAuth.ret = "true"
           /\ config.api_key = IssuedKey
           /\ corePc # "failed"

----------------------------------------------------------------------------
(* Properties of the life of one SnailCore, checked under SpecCore *)

\* the constructor reaches ensure_api_key: core.py lines 79-81
ConsultsAtConstruction ==
    /\ corePc = "unbuilt"
    /\ corePc' # "unbuilt"
    /\ Truthy(BootstrapUrl)
    /\ ~Truthy(config.api_key)

\* collect_and_upload reaches ensure_api_key: core.py lines 177-182
ConsultsBeforeUpload ==
    /\ coreOp = "cau_collect"
    /\ coreOp' # "cau_collect"
    /\ uploader # Nil
    /\ config.upload_enabled
    /\ ~Truthy(config.api_key)
    /\ Truthy(BootstrapUrl)

\* C21 (as claimed): over the life of one SnailCore ensure_api_key is called
\* at most once, and only by a call that is about to upload: never by the
\* constructor, and never after an earlier call of it.
C21_ConsultedOnceLazily ==
    [][/\ ~ConsultsAtConstruction
       /\ ConsultsBeforeUpload => lastAuth = NoAuth]_vars

\* the collector loop of the run that built report is over
LoopFinished ==
    \/ cpc \in {"idle", "returned"}
    \/ cpc = "running" /\ idx > Len(toRun)

\* a later collect() starts: it builds a new CollectionReport, whose results
\* and errors are containers of its own (default_factory), and report names
\* that new object from here on
NewRunStarts == cpc # "running" /\ cpc' = "running"

IdentityOf(r) ==
    [hostname |-> r.hostname, host_id |-> r.host_id,
     collection_id |-> r.collection_id]

\* the step is the except clause of collect_and_upload, lines 189-191
AppendsUploadFailure ==
    /\ coreOp = "cau_upload"
    /\ upc = "done"
    /\ upOutcome.kind = "raise"
    /\ coreOp' = "none"
    /\ report'.errors = Append(report.errors,
                               [collector |-> None, cause |-> "Upload failed",
                                error |-> upOutcome])

UploadStepFailed ==
    /\ coreOp = "cau_upload"
    /\ upc = "done"
    /\ upOutcome.kind = "raise"

UploadFailures(r) ==
    {i \in 1..Len(r.errors) : r.errors[i].cause = "Upload failed"}

C24_EnvUrlAdopted ==
    [][(/\ corePc = "unbuilt"
        /\ corePc' = "ready"
        /\ ~Truthy(config.upload_url)
        /\ Truthy(env.SNAIL_UPLOAD_URL)) =>
          /\ config'.upload_url = env.SNAIL_UPLOAD_URL
          /\ uploader' = Uploader(config')]_vars

----------------------------------------------------------------------------
(* Properties of Config, checked under SpecConfig *)

\* from_file has just read, without error, a file that save wrote for config
LoadedSavedFile ==
    /\ coreOutcome # Nil
    /\ coreOutcome.op = "from_file"
    /\ coreOutcome.result.kind = "return"
    /\ cfgFiles[coreOutcome.result.path] = SavedFile(config)

\* C25 (as claimed): saving a Config and loading the file with from_file
\* gives a Config equal to the original in every field except api_key.
C25_SaveLoadRoundTrip ==
    LoadedSavedFile =>
        \A f \in FieldNames \ {"api_key"} :
            coreOutcome.result.config[f] = config[f]

----------------------------------------------------------------------------
(* Order of the collector loop, checked under SpecCollect *)

\* position of a collector in the registry
Pos(n) == CHOOSE i \in 1..Len(Registry) : Registry[i] = n

InRegistryOrder(seq) ==
    \A i, j \in 1..Len(seq) : i < j => Pos(seq[i]) < Pos(seq[j])

\* entries of the Report that belong to collector n
EntriesOf(n) ==
    (IF n \in DOMAIN report.results THEN 1 ELSE 0)
        + Cardinality(ErrorsNaming(n))

\* C26: within one collect() run the collectors of the working set are
\* constructed and invoked one after the other in registry order, each
\* exactly once, whatever the order or repetition of the names passed; when a
\* collector starts, every collector before it has its one results or errors
\* entry and no other entry exists.
C26_OneAtATimeInRegistryOrder ==
    cpc \in {"running", "returned"} =>
        /\ InRegistryOrder(toRun)
        /\ Len(invoked) <= Len(toRun)
        /\ invoked = SubSeq(toRun, 1, Len(invoked))
        /\ \A i \in 1..Len(invoked) : EntriesOf(invoked[i]) = 1
        /\ Cardinality(DOMAIN report.results) + Len(report.errors)
              = Len(invoked)
        /\ (cpc = "returned" => invoked = toRun)

\* a run asked for the last and the first collector, in that order
C26_Witness ==
    /\ cpc = "returned"
    /\ names.given
    /\ names.list = <<Registry[Len(Registry)], Registry[1]>>
    /\ invoked = <<Registry[1], Registry[Len(Registry)]>>
    /\ failed = {Registry[1]}

----------------------------------------------------------------------------
(* Properties of get_host_id step by step, checked under SpecHostSteps *)

\* C27 (as claimed): in every state in which a host-id file holds an identity
\* written by get_host_id, between the write and the chmod and after a
\* failed chmod included, the file is readable and writable by its owner
\* only.
C27_OwnerOnlyWheneverStored ==
    \A path \in HostIdFiles :
        (files[path] # NoFile /\ IsValidUuid(files[path]))
            => fileMode[path] = OwnerOnly

\* both processes have finished a first call that found no host-id file
ConcurrentFirstCalls ==
    \A p \in Procs : procs[p].first # NoFile /\ procs[p].firstSawAbsent

\* C30 (as claimed): when two processes call get_host_id concurrently for the
\* same location while no host-id file exists, both calls return the same
\* identity, which is the one left in the file and the one every later call
\* returns.
C30_ConcurrentCallsAgree ==
    ConcurrentFirstCalls =>
        /\ procs["p1"].first = procs["p2"].first
        /\ files[HostIdPath(output_dir)] = procs["p1"].first
        /\ \A p \in Procs :
              procs[p].pc = "done" => procs[p].ret = procs["p1"].first

----------------------------------------------------------------------------
(* Properties of the issuance request, checked under SpecIssue *)

\* the request carrying the username and password has been sent
IssuanceSent ==
    /\ coreOutcome # Nil
    /\ coreOutcome.op = "get_api_key"
    /\ request # Nil

\* C28 (as claimed): for every upload URL the issuance request that carries
\* the username and password goes to the scheme, host and port of the upload
\* URL, at a path ending in /auth/api-key.
C28_IssuanceSameOrigin ==
    IssuanceSent =>
        /\ Origin(request.url) = Origin(coreOutcome.result.upload_url)
        /\ EndsWith(request.url, <<"/", "auth", "/", "api-key">>)

----------------------------------------------------------------------------
(* The attempt count of an upload, checked under SpecUpload *)

\* C29 (as claimed): for every configured retry count N, N <= 0 included, and
\* every sequence of responses and transport failures, the attempt count an
\* upload reports (in its result and in the UploadError) equals the number
\* of requests sent, at most max(N, 0) requests are sent, and an upload that
\* sent no request never reports success.
C29_AttemptsCountRequests ==
    /\ sent <= (IF config.upload_retries > 0 THEN config.upload_retries
                ELSE 0)
    /\ (upc = "done" /\ sent = 0) => upOutcome.kind = "raise"
    /\ (upc = "done" /\ upResult # Nil) =>
          /\ upResult.attempts = sent
          /\ upOutcome.kind = "raise" => upOutcome.attempts = sent

====
